---------------------------- MODULE Spec2Model ----------------------------
(***************************************************************************)
(* A model of the Jira -> Planfix synchronisation bridge.                  *)
(*                                                                         *)
(*   src/src/__main__.py            job(), main(), in_redis_issues(),      *)
(*                                  upload_issues_to_planfix(), comments() *)
(*   src/src/storage/repository.py  the three Lua upserts and the reads    *)
(*   src/src/utils/hash.py          canon_text, hash_text, hash_seq, ...   *)
(*   src/src/jira/methods.py        _download_with_retries, ...            *)
(*   src/src/planfix/methods.py     the destination calls (their outcomes) *)
(*                                                                         *)
(* Texts are sequences of one-character strings (an HTML entity is one     *)
(* token).  A digest is modelled by an injective function of the hashed    *)
(* bytes, so two digests are equal exactly when the hashed payloads are.   *)
(***************************************************************************)
EXTENDS Integers, Sequences, FiniteSets, TLC

(***************************************************************************)
(* Bounds of the model.                                                    *)
(***************************************************************************)
MaxPasses == 3      \* passes of job() that main() starts
MaxEdits == 1       \* edits of the source data between passes
MaxFailures == 1    \* collaborator calls that fail in one run
MaxNow == 2         \* seconds of Redis TIME the store on its own runs through
MaxTextLen == 3     \* characters of a text given to canon_text on its own
MaxIds == 3         \* ids of a list given to hash_attachment_id on its own
MaxComments == 4    \* comments an issue read by get_issue_comments on its own has had
MaxPageCap == 2     \* comments Jira puts on one page at most

(***************************************************************************)
(* Program constants.                                                      *)
(***************************************************************************)
max_retries == 4    \* _download_with_retries(max_retries=4)

(***************************************************************************)
(* Finite universes the inputs are drawn from.                             *)
(***************************************************************************)
IssueIds == {1, 2}                       \* Jira issue ids
AttIds == {7}                            \* Jira attachment ids
CommentIds == {11, 12}                   \* Jira comment ids
TaskId(n) == 100 + n                     \* the id Planfix gives its n-th task
CommentPId(n) == 200 + n                 \* the id Planfix gives its n-th comment
CommentIssue(c) == 1                     \* the issue a comment is written on
\* the description every issue starts with, the same text in another case, with a
\* tag, a longer run of spaces and a trailing space, and the text with its space
\* turned into a line break
FirstDescription == <<"a", " ", "b">>
Reformatted == <<"<", "i", ">", "A", " ", " ", "b", " ">>
Rebroken == <<"a", "\n", "b">>
Descriptions == { FirstDescription, Reformatted, Rebroken }
Bodies == { <<"x">>, <<"y">> }

None == <<"None">>                       \* Python's None (no text holds this token)

(***************************************************************************)
(* utils/hash.py                                                           *)
(***************************************************************************)
\* index of the first ">" of s, 0 when there is none
FirstGt(s) ==
    IF \E i \in 1..Len(s) : s[i] = ">"
    THEN CHOOSE i \in 1..Len(s) : s[i] = ">" /\ \A k \in 1..(i-1) : s[k] # ">"
    ELSE 0

\* re.sub(r"<[^>]+>", "", s)
RECURSIVE StripTags(_)
StripTags(s) ==
    IF s = <<>> THEN <<>>
    ELSE LET k == FirstGt(Tail(s))
         IN  IF Head(s) = "<" /\ k >= 2
             THEN StripTags(SubSeq(Tail(s), k + 1, Len(Tail(s))))
             ELSE <<Head(s)>> \o StripTags(Tail(s))

\* html.unescape: one pass over the entities
Unescape(s) ==
    [i \in 1..Len(s) |-> CASE s[i] = "&lt;" -> "<"
                           [] s[i] = "&gt;" -> ">"
                           [] s[i] = "&amp;" -> "&"
                           [] OTHER -> s[i]]

\* s.replace("\r\n", "\n").replace("\r", "\n")
RECURSIVE NormNewlines(_)
NormNewlines(s) ==
    IF s = <<>> THEN <<>>
    ELSE IF Head(s) = "\r"
         THEN IF Len(s) >= 2 /\ s[2] = "\n"
              THEN <<"\n">> \o NormNewlines(Tail(Tail(s)))
              ELSE <<"\n">> \o NormNewlines(Tail(s))
         ELSE <<Head(s)>> \o NormNewlines(Tail(s))

\* ZW_RE.sub("", s): the zero-width characters, one token "zw"
RECURSIVE StripZW(_)
StripZW(s) ==
    IF s = <<>> THEN <<>>
    ELSE IF Head(s) = "zw" THEN StripZW(Tail(s))
         ELSE <<Head(s)>> \o StripZW(Tail(s))

IsBlank(c) == c \in {" ", "\t"}

\* SPACE_RE.sub(" ", s): runs of spaces and tabs become one space
RECURSIVE CollapseSpaces(_)
CollapseSpaces(s) ==
    IF s = <<>> THEN <<>>
    ELSE IF IsBlank(Head(s))
         THEN IF Len(s) >= 2 /\ IsBlank(s[2])
              THEN CollapseSpaces(Tail(s))
              ELSE <<" ">> \o CollapseSpaces(Tail(s))
         ELSE <<Head(s)>> \o CollapseSpaces(Tail(s))

IsWhite(c) == c \in {" ", "\t", "\n", "\r"}

\* s.strip()
RECURSIVE Strip(_)
Strip(s) ==
    IF s = <<>> THEN <<>>
    ELSE IF IsWhite(Head(s)) THEN Strip(Tail(s))
    ELSE IF IsWhite(s[Len(s)]) THEN Strip(SubSeq(s, 1, Len(s) - 1))
    ELSE s

\* s.casefold()
Casefold(s) ==
    [i \in 1..Len(s) |-> CASE s[i] = "A" -> "a"
                           [] s[i] = "B" -> "b"
                           [] s[i] = "X" -> "x"
                           [] s[i] = "Y" -> "y"
                           [] OTHER -> s[i]]

\* canon_text without its last step, the case folding
canon_text_cased(s) ==
    LET s0 == IF s = None THEN <<>> ELSE s
    IN  Strip(CollapseSpaces(StripZW(NormNewlines(Unescape(StripTags(s0))))))

\* canon_text(s, strip_html=True); NFC is the identity on the modelled alphabet
canon_text(s) ==
    LET s0 == IF s = None THEN <<>> ELSE s
        s1 == StripTags(s0)
        s2 == Unescape(s1)
        s3 == NormNewlines(s2)
        s4 == StripZW(s3)
        s5 == CollapseSpaces(s4)
        s6 == Strip(s5)
    IN  Casefold(s6)

\* h_digest(b).hex(): an injective digest, never the empty string
h_digest(b) == <<"#">> \o b

\* hash_text(text): canonicalises again, then digests
hash_text(text) == h_digest(canon_text(text))

\* sorted(set(ints)) for a set of integers
RECURSIVE SortedSeq(_)
SortedSeq(S) ==
    IF S = {} THEN <<>>
    ELSE LET m == CHOOSE x \in S : \A y \in S : x <= y
         IN  <<m>> \o SortedSeq(S \ {m})

\* hash_seq(ints): digest of the count followed by the values
hash_seq(ints) == <<"#", Len(ints)>> \o ints

\* str(n): the decimal digits of an id; Jira gives the ids of attachments as
\* decimal strings (jira/methods.py 87, __main__.py 33) and an integer of the model
\* stands for that string
RECURSIVE Digits(_)
Digits(n) == IF n < 10 THEN <<n>> ELSE Append(Digits(n \div 10), n % 10)

\* a < b for two strings of digits: Python's order of str
RECURSIVE StrLess(_, _)
StrLess(a, b) ==
    IF b = <<>> THEN FALSE
    ELSE IF a = <<>> THEN TRUE
    ELSE IF Head(a) # Head(b) THEN Head(a) < Head(b)
    ELSE StrLess(Tail(a), Tail(b))

IdLess(x, y) == StrLess(Digits(x), Digits(y))

\* sorted(set(ints)) for a set of ids
RECURSIVE SortedIds(_)
SortedIds(S) ==
    IF S = {} THEN <<>>
    ELSE LET m == CHOOSE x \in S : \A y \in S \ {x} : IdLess(x, y)
         IN  <<m>> \o SortedIds(S \ {m})

\* a variant of hash_attachment_id that digests the list as it is given
hash_attachment_id_as_given(ints) == hash_seq(ints)

\* hash_attachment_id(ints), ints a list
hash_attachment_id(ints) == hash_seq(SortedIds({ints[i] : i \in 1..Len(ints)}))

\* a variant of truthiness in which only None is falsy
TruthyNotNone(v) == v # None

\* Python truthiness of a digest / field value: None and "" are falsy
Truthy(v) == v # None /\ v # <<>>

\* a variant of hashes_equal that compares only whether the digests are present
hashes_equal_presence(h1, h2) == Truthy(h1) = Truthy(h2)

\* hashes_equal(h1, h2): (h1 or b"") == (h2 or b"")
hashes_equal(h1, h2) ==
    LET a == IF Truthy(h1) THEN h1 ELSE <<>>
        b == IF Truthy(h2) THEN h2 ELSE <<>>
    IN  a = b

(***************************************************************************)
(* storage/repository.py: a Redis hash is a function from field names to   *)
(* values; a key exists exactly when its hash has a field.                 *)
(***************************************************************************)
NoKey == <<>>
EXISTS(rec) == DOMAIN rec # {}
HSET(rec, f, v) == [k \in DOMAIN rec \cup {f} |-> IF k = f THEN v ELSE rec[k]]
HAS(rec, f) == f \in DOMAIN rec
\* HGET ... or "": a missing field reads as the empty string
HGET_or_empty(rec, f) == IF HAS(rec, f) THEN rec[f] ELSE <<>>

\* UPSERT_J_ISSUE_LUA: the list `changed` it returns
UpsertIssueChanged(rec, new_desc, new_att) ==
    (IF (~HAS(rec, "h_description")) \/ rec["h_description"] # new_desc
     THEN <<"desc">> ELSE <<>>)
    \o (IF HGET_or_empty(rec, "h_attachment") # new_att THEN <<"attach">> ELSE <<>>)

\* a variant of UPSERT_J_ISSUE_LUA that stamps created_at on every call
UPSERT_J_ISSUE_LUA_restamped(rec, new_desc, new_att, t) ==
    LET r1 == HSET(rec, "created_at", t)
        r2 == HSET(r1, "h_description", new_desc)
        r3 == HSET(r2, "h_attachment", new_att)
    IN  IF UpsertIssueChanged(rec, new_desc, new_att) # <<>>
        THEN HSET(r3, "updated_at", t) ELSE r3

\* UPSERT_J_ISSUE_LUA: the hash it leaves at the key, at Redis time t
UPSERT_J_ISSUE_LUA(rec, new_desc, new_att, t) ==
    LET r1 == IF ~EXISTS(rec) THEN HSET(rec, "created_at", t) ELSE rec
        r2 == IF (~HAS(r1, "h_description")) \/ r1["h_description"] # new_desc
              THEN HSET(r1, "h_description", new_desc) ELSE r1
        r3 == IF HGET_or_empty(r1, "h_attachment") # new_att
              THEN HSET(r2, "h_attachment", new_att) ELSE r2
    IN  IF UpsertIssueChanged(r1, new_desc, new_att) # <<>>
        THEN HSET(r3, "updated_at", t) ELSE r3

\* upsert_issue_hash: bool(is_new), is_new being the Lua list `changed`
upsert_issue_hash_result(rec, h_description, h_attachment) ==
    UpsertIssueChanged(rec, h_description,
                       IF Truthy(h_attachment) THEN h_attachment ELSE <<>>) # <<>>

\* upsert_issue_hash: the stored hash afterwards
upsert_issue_hash(rec, h_description, h_attachment, t) ==
    UPSERT_J_ISSUE_LUA(rec, h_description,
                       IF Truthy(h_attachment) THEN h_attachment ELSE <<>>, t)

\* a variant of UPSERT_LINK_LUA that writes nothing
UPSERT_LINK_LUA_lost(rec, j, p, t) == rec

\* UPSERT_LINK_LUA / upsert_issue_link
UPSERT_LINK_LUA(rec, j, p, t) ==
    LET r1 == IF ~EXISTS(rec) THEN HSET(rec, "created_at", t) ELSE rec
    IN  HSET(HSET(r1, "j_issue", j), "p_issue", p)

\* UPSERT_COMMENT_LUA / upsert_comment
UPSERT_COMMENT_LUA(rec, j, p, p_issue, desc, t) ==
    LET r1 == IF ~EXISTS(rec) THEN HSET(rec, "created_at", t) ELSE rec
        r2 == IF HGET_or_empty(r1, "h_description") # desc
              THEN HSET(r1, "h_description", desc) ELSE r1
    IN  HSET(HSET(HSET(r2, "comment_j_id", j), "comment_p_id", p), "p_issue_id", p_issue)

\* upsert_comment: bool(is_new)
upsert_comment_result(rec) == ~EXISTS(rec)

(***************************************************************************)
(* State.                                                                  *)
(***************************************************************************)
VARIABLES
    pc,                             \* where main()/job() stands
    passes,                         \* passes started; also the Redis TIME of a pass
    edits,                          \* edits of the source so far
    failures,                       \* collaborator calls that failed so far
    exit_code,                      \* the process's exit code, None while it runs
    j_issues,                       \* Jira: open issues of the user, by id
    j_comments,                     \* Jira: comments, by id
    issue,                          \* Redis: issue:{id}
    issue_link,                     \* Redis: issue_link:{id}
    comment_link,                   \* Redis: comment_link:{id}
    p_tasks,                        \* Planfix: the Jira id each task was created for
    p_comments,                     \* Planfix: the Jira comment each comment was added for
    downloads,                      \* the directories under downloads/ and their files
    jira_issues_list_data,          \* job(): the fetched issues
    in_redis_issues_ids,            \* job(): fetched ids with an issue record
    upload_issues_to_planfix_ids,   \* job(): ids to create or update
    updated_issues_data,            \* job(): change flags of the known issues
    in_planfix_ids,                 \* upload_issues_to_planfix(): (task id, issue id)
    not_in_planfix_ids,             \* upload_issues_to_planfix()
    comments_response,              \* comments(): the comment ids as Jira returned them
    comments_data,                  \* comments(): the fetched comments
    idx,                            \* the index of the running loop
    calls,                          \* the collaborator calls of this pass, in order
    edited,                         \* the source changed since the last pass started
    lastClean,                      \* the last pass returned and no call of it failed
    quiet,                          \* this pass follows a clean pass on the same data
    start,                          \* the store as it was when this pass started
    to_retry,                       \* the comment calls that failed in the last pass
    dl_pc, attempt, dl_event, dl_status, dl_delay,  \* _download_with_retries
    redis,                          \* the store on its own: the hash under each key
    clients,                        \* the store on its own: the callers and their scripts
    now,                            \* the store on its own: Redis TIME
    observed,                       \* the store on its own: what the readers got
    arg_h1, arg_h2,                 \* the comparisons on their own: the two digests
    applied,                        \* the comparisons on their own: the function applied
    returned,                       \* the comparisons on their own: what it returned
    s_in, s_canon, s_again,         \* canon_text on its own: s, canon_text(s), and again
    ints_a, ints_b,                 \* hash_attachment_id on its own: two id lists
    digest_a, digest_b,             \* hash_attachment_id on its own: their digests
    pg_pc,                          \* get_issue_comments on its own: where it stands
    pg_server,                      \* the comments of the issue that Jira holds
    pg_cap,                         \* the most comments Jira puts on one page
    pg_start_at,                    \* get_issue_comments: start_at
    pg_rows,                        \* get_issue_comments: rows
    pg_seen,                        \* the comments of all the pages received
    pg_result                       \* get_issue_comments: the list it returned

jobVars == <<pc, passes, edits, failures, exit_code, j_issues, j_comments, issue,
             issue_link, comment_link, p_tasks, p_comments, downloads,
             jira_issues_list_data, in_redis_issues_ids, upload_issues_to_planfix_ids,
             updated_issues_data, in_planfix_ids, not_in_planfix_ids,
             comments_response, comments_data,
             idx, calls, edited, lastClean, quiet, start, to_retry>>
dlVars == <<dl_pc, attempt, dl_event, dl_status, dl_delay>>
stVars == <<redis, clients, now, observed>>
fnVars == <<arg_h1, arg_h2, applied, returned>>
txVars == <<s_in, s_canon, s_again>>
seqVars == <<ints_a, ints_b, digest_a, digest_b>>
pgVars == <<pg_pc, pg_server, pg_cap, pg_start_at, pg_rows, pg_seen, pg_result>>
vars == <<jobVars, dlVars, stVars, fnVars, txVars, seqVars, pgVars>>

\* what each of the four parts of the model leaves alone
besideJob == <<dlVars, stVars, fnVars, txVars, seqVars, pgVars>>
besideDownload == <<jobVars, stVars, fnVars, txVars, seqVars, pgVars>>
besideStore == <<jobVars, dlVars, fnVars, txVars, seqVars, pgVars>>
besideHash == <<jobVars, dlVars, stVars, txVars, seqVars, pgVars>>
besideText == <<jobVars, dlVars, stVars, fnVars, seqVars, pgVars>>
besideSeq == <<jobVars, dlVars, stVars, fnVars, txVars, pgVars>>
besidePages == <<jobVars, dlVars, stVars, fnVars, txVars, seqVars>>

sourceVars == <<j_issues, j_comments>>
storeVars == <<issue, issue_link, comment_link>>
planfixVars == <<p_tasks, p_comments>>
localVars == <<jira_issues_list_data, in_redis_issues_ids, upload_issues_to_planfix_ids,
               updated_issues_data, in_planfix_ids, not_in_planfix_ids,
               comments_response, comments_data>>
ghostVars == <<edited, lastClean, quiet, start, to_retry>>

(***************************************************************************)
(* Helpers.                                                                *)
(***************************************************************************)
\* the lists a Python list(set) may yield
SeqsOf(S) == { s \in [1..Cardinality(S) -> S] : \A x \in S : \E i \in DOMAIN s : s[i] = x }
Range(s) == { s[i] : i \in DOMAIN s }
CallA(op, id, res, arg) == [op |-> op, id |-> id, res |-> res, arg |-> arg]
Call(op, id, res) == CallA(op, id, res, {})
Alert(id) == Call("send_alert_to_chat", id, "ok")
\* A collaborator call may fail while the run's budget of failures lasts.  The
\* failing calls are the Jira fetches, get_sid, the Planfix mutations, the
\* attachment download, and the store writes upsert_issue_hash, upsert_issue_link
\* and upsert_comment; the store reads are taken to succeed.
MayFail == failures < MaxFailures

\* next(i for i in data if int(i['id']) == id)
ById(data, id) == data[CHOOSE i \in DOMAIN data : data[i].id = id]

\* hash_jira_issue_data: one element of issue_hash_list
IssueHash(i) ==
    [issue_id |-> i.id,
     h_description |-> hash_text(canon_text(i.description)),
     h_attachment |-> IF Len(i.attachment) # 0
                      THEN hash_attachment_id(i.attachment) ELSE None]

\* comment_description_format
comment_description_format(data) ==
    <<"Author: ", data.author, ".", "\n", "\n", "Date: ", data.created, ".", "\n", "\n">>
        \o data.description

\* get_issue / get_issue_link / get_comment: None for a missing key
get(rec) == IF EXISTS(rec) THEN rec ELSE None

(***************************************************************************)
(* Init: the process starts with an empty store, an empty destination and  *)
(* an empty downloads/ directory; Jira holds some issues.                  *)
(***************************************************************************)
NoStart == <<>>
StoreNow == [issue |-> issue, issue_link |-> issue_link, comment_link |-> comment_link]

NoLocals ==
    /\ jira_issues_list_data = <<>>
    /\ in_redis_issues_ids = <<>>
    /\ upload_issues_to_planfix_ids = <<>>
    /\ updated_issues_data = <<>>
    /\ in_planfix_ids = <<>>
    /\ not_in_planfix_ids = <<>>
    /\ comments_response = <<>>
    /\ comments_data = <<>>
    /\ idx = 0
    /\ calls = <<>>

DlIdle ==
    /\ dl_pc = "off"
    /\ attempt = 0
    /\ dl_event = "none"
    /\ dl_status = 0
    /\ dl_delay = 0

StIdle ==
    /\ redis = <<>>
    /\ clients = <<>>
    /\ now = 0
    /\ observed = <<>>

TextIdle ==
    /\ s_in = None
    /\ s_canon = None
    /\ s_again = None

SeqIdle ==
    /\ ints_a = <<>>
    /\ ints_b = <<>>
    /\ digest_a = None
    /\ digest_b = None

PagesIdle ==
    /\ pg_pc = "off"
    /\ pg_server = <<>>
    /\ pg_cap = 0
    /\ pg_start_at = 0
    /\ pg_rows = <<>>
    /\ pg_seen = {}
    /\ pg_result = None

FnIdle ==
    /\ arg_h1 = None
    /\ arg_h2 = None
    /\ applied = "none"
    /\ returned = FALSE

JiraIssue(d, a) == [description |-> d, attachment |-> a]
AttLists == { SortedSeq(S) : S \in SUBSET AttIds }

Init ==
    /\ pc = "idle"
    /\ passes = 0
    /\ edits = 0
    /\ failures = 0
    /\ exit_code = None
    /\ \E S \in SUBSET IssueIds :
          /\ j_issues \in [S -> { JiraIssue(FirstDescription, a) : a \in AttLists }]
          /\ \E T \in SUBSET { c \in CommentIds : CommentIssue(c) \in S } :
                j_comments = [c \in T |-> [description |-> <<"x">>]]
    /\ issue = [j \in IssueIds |-> NoKey]
    /\ issue_link = [j \in IssueIds |-> NoKey]
    /\ comment_link = [c \in CommentIds |-> NoKey]
    /\ p_tasks = <<>>
    /\ p_comments = <<>>
    /\ downloads = <<>>
    /\ NoLocals
    /\ edited = FALSE
    /\ lastClean = FALSE
    /\ quiet = FALSE
    /\ start = NoStart
    /\ to_retry = {}
    /\ DlIdle
    /\ StIdle
    /\ FnIdle
    /\ TextIdle
    /\ SeqIdle
    /\ PagesIdle

(***************************************************************************)
(* The source changes between passes.                                      *)
(***************************************************************************)
SetFn(f, k, v) == [x \in DOMAIN f \cup {k} |-> IF x = k THEN v ELSE f[x]]

EditGuard == pc = "idle" /\ edits < MaxEdits /\ 1 <= passes /\ passes < MaxPasses

EditTail ==
    /\ edits' = edits + 1
    /\ edited' = TRUE
    /\ to_retry' = {}
    /\ UNCHANGED <<pc, passes, failures, exit_code, storeVars, planfixVars, downloads,
                   localVars, idx, calls, lastClean, quiet, start, besideJob>>

\* a new issue is assigned to the user
NewIssue ==
    /\ EditGuard
    /\ \E j \in IssueIds \ DOMAIN j_issues, d \in Descriptions, a \in AttLists :
          j_issues' = SetFn(j_issues, j, JiraIssue(d, a))
    /\ UNCHANGED j_comments
    /\ EditTail

\* the description of an issue is edited
EditDescription ==
    /\ EditGuard
    /\ \E j \in DOMAIN j_issues :
          \E d \in Descriptions \ {j_issues[j].description} :
             j_issues' = [j_issues EXCEPT ![j].description = d]
    /\ UNCHANGED j_comments
    /\ EditTail

\* the attachments of an issue change
EditAttachments ==
    /\ EditGuard
    /\ \E j \in DOMAIN j_issues :
          \E a \in AttLists \ {j_issues[j].attachment} :
             j_issues' = [j_issues EXCEPT ![j].attachment = a]
    /\ UNCHANGED j_comments
    /\ EditTail

\* a comment is written on an issue, or an existing comment is edited
EditComment ==
    /\ EditGuard
    /\ \E c \in CommentIds, b \in Bodies :
          /\ CommentIssue(c) \in DOMAIN j_issues
          /\ c \in DOMAIN j_comments => j_comments[c].description # b
          /\ j_comments' = SetFn(j_comments, c, [description |-> b])
    /\ UNCHANGED j_issues
    /\ EditTail

(***************************************************************************)
(* job(), lines 383-426: fetch, hash, authenticate, partition.             *)
(***************************************************************************)
\* get_issue_data's result for issue j
IssueData(j) ==
    [id |-> j, description |-> j_issues[j].description, attachment |-> j_issues[j].attachment]

\* jira.get_issues_self() and the gather of get_issue_data succeed
JobFetchOk ==
    /\ pc = "idle"
    /\ passes < MaxPasses
    /\ \E order \in SeqsOf(DOMAIN j_issues) :
          jira_issues_list_data' = [i \in DOMAIN order |-> IssueData(order[i])]
    /\ pc' = "get_sid"
    /\ passes' = passes + 1
    /\ calls' = <<>>
    /\ quiet' = (lastClean /\ ~edited)
    /\ edited' = FALSE
    /\ start' = StoreNow
    /\ UNCHANGED <<edits, failures, exit_code, sourceVars, storeVars, planfixVars,
                   downloads, in_redis_issues_ids, upload_issues_to_planfix_ids,
                   updated_issues_data, in_planfix_ids, not_in_planfix_ids,
                   comments_response, comments_data, idx, lastClean, to_retry,
                   besideJob>>

\* ... or get_issues_self or the get_issue_data of one issue raises: alert,
\* sys.exit(1)
JobFetchFail ==
    /\ pc = "idle"
    /\ passes < MaxPasses
    /\ MayFail
    /\ failures' = failures + 1
    /\ pc' = "sys_exit"
    /\ passes' = passes + 1
    /\ \E failed \in {Call("get_issues_self", 0, "fail")}
                        \cup { Call("get_issue_data", j, "fail") : j \in DOMAIN j_issues } :
          calls' = <<failed, Alert(0)>>
    /\ quiet' = (lastClean /\ ~edited)
    /\ edited' = FALSE
    /\ start' = StoreNow
    /\ UNCHANGED <<edits, exit_code, sourceVars, storeVars, planfixVars, downloads,
                   localVars, idx, lastClean, to_retry, besideJob>>

\* a variant of list_issue_ids that scans the issue_link:{id} keys
list_issue_ids_of_links == { j \in IssueIds : EXISTS(issue_link[j]) }

\* list_issue_ids: the ids of the issue:{id} keys
list_issue_ids == { j \in IssueIds : EXISTS(issue[j]) }

jira_issues_ids == { jira_issues_list_data[i].id : i \in DOMAIN jira_issues_list_data }

\* planfix.get_sid succeeds; lines 421-426 partition the fetched ids
GetSidOk ==
    /\ pc = "get_sid"
    /\ \E up \in SeqsOf(jira_issues_ids \ list_issue_ids) :
          /\ upload_issues_to_planfix_ids' = up
          /\ \E known \in SeqsOf(jira_issues_ids \ Range(up)) :
                in_redis_issues_ids' = known
    /\ pc' = "in_redis_issues"
    /\ UNCHANGED <<passes, edits, failures, exit_code, sourceVars, storeVars,
                   planfixVars, downloads, jira_issues_list_data, updated_issues_data,
                   in_planfix_ids, not_in_planfix_ids, comments_response, comments_data,
                   idx, calls, ghostVars, besideJob>>

\* a variant of lines 406-416 whose handler re-raises instead of calling sys.exit(1)
GetSidFailRaises ==
    /\ pc = "get_sid"
    /\ MayFail
    /\ failures' = failures + 1
    /\ calls' = calls \o <<Call("get_sid", 0, "fail"), Alert(0)>>
    /\ pc' = "raised"
    /\ UNCHANGED <<passes, edits, exit_code, sourceVars, storeVars, planfixVars,
                   downloads, localVars, idx, ghostVars, besideJob>>

\* planfix.get_sid raises: alert, sys.exit(1)
GetSidFail ==
    /\ pc = "get_sid"
    /\ MayFail
    /\ failures' = failures + 1
    /\ calls' = calls \o <<Call("get_sid", 0, "fail"), Alert(0)>>
    /\ pc' = "sys_exit"
    /\ UNCHANGED <<passes, edits, exit_code, sourceVars, storeVars, planfixVars,
                   downloads, localVars, idx, ghostVars, besideJob>>

\* SystemExit is no Exception: main()'s handler lets it through, its finally
\* clause sleeps, and the process ends with the exit code
SysExit ==
    /\ pc = "sys_exit"
    /\ pc' = "exited"
    /\ exit_code' = 1
    /\ UNCHANGED <<passes, edits, failures, sourceVars, storeVars, planfixVars,
                   downloads, localVars, idx, calls, ghostVars, besideJob>>

(***************************************************************************)
(* in_redis_issues, lines 183-227.                                         *)
(***************************************************************************)
\* a variant of lines 207-213 that compares the stored field with the computed value
\* as they stand, the stored "" of an issue without attachments against None
equal_attachment_strict(redis_issue, jira_issue) ==
    HGET_or_empty(redis_issue, "h_attachment") = jira_issue.h_attachment

\* a variant of line 215 in which `equal` means what its name says
equal_as_named(redis_issue, jira_issue) ==
    equal_attachment_strict(redis_issue, jira_issue)
        /\ hashes_equal(redis_issue["h_description"], jira_issue.h_description)

\* lines 205-213
equal_description(redis_issue, jira_issue) ==
    hashes_equal(redis_issue["h_description"], jira_issue.h_description)

equal_attachment(redis_issue, jira_issue) ==
    LET ra == IF HAS(redis_issue, "h_attachment") THEN redis_issue["h_attachment"] ELSE None
    IN  IF Truthy(ra) /\ Truthy(jira_issue.h_attachment)
        THEN hashes_equal(ra, jira_issue.h_attachment)
        ELSE IF ~Truthy(ra) /\ ~Truthy(jira_issue.h_attachment) THEN TRUE
        ELSE FALSE

\* line 215: the variable the code names `equal`; it is true when a hash differs
equal(redis_issue, jira_issue) ==
    IF equal_description(redis_issue, jira_issue) /\ equal_attachment(redis_issue, jira_issue)
    THEN FALSE ELSE TRUE

\* a variant of lines 218-221 that flags both fields of every changed issue
issue_data_both(issue_id, redis_issue, jira_issue) ==
    [id |-> issue_id, h_description |-> TRUE, h_attachment |-> TRUE]

\* lines 218-221
issue_data(issue_id, redis_issue, jira_issue) ==
    [id |-> issue_id,
     h_description |-> ~equal_description(redis_issue, jira_issue),
     h_attachment |-> ~equal_attachment(redis_issue, jira_issue)]

\* line 202 raises inside the try when the record holds no h_description
CompareRaises(issue_id) == ~HAS(issue[issue_id], "h_description")

\* the ids of the list that line 223 appends, in order
RECURSIVE ChangedIds(_)
ChangedIds(ids) ==
    IF ids = <<>> THEN <<>>
    ELSE LET j == Head(ids)
         IN  (IF ~CompareRaises(j) /\ equal(issue[j], IssueHash(ById(jira_issues_list_data, j)))
              THEN <<j>> ELSE <<>>) \o ChangedIds(Tail(ids))

RECURSIVE CompareAlerts(_)
CompareAlerts(ids) ==
    IF ids = <<>> THEN <<>>
    ELSE (IF CompareRaises(Head(ids)) THEN <<Alert(Head(ids))>> ELSE <<>>)
         \o CompareAlerts(Tail(ids))

InRedisIssues ==
    /\ pc = "in_redis_issues"
    /\ LET changed == ChangedIds(in_redis_issues_ids)
           up == upload_issues_to_planfix_ids \o changed
       IN  /\ upload_issues_to_planfix_ids' = up
           /\ updated_issues_data' =
                 [i \in DOMAIN changed |->
                     issue_data(changed[i], issue[changed[i]],
                                IssueHash(ById(jira_issues_list_data, changed[i])))]
           /\ pc' = IF up = <<>> THEN "comments" ELSE "upsert_issue_hash"
    /\ calls' = calls \o CompareAlerts(in_redis_issues_ids)
    /\ idx' = 1
    /\ UNCHANGED <<passes, edits, failures, exit_code, sourceVars, storeVars,
                   planfixVars, downloads, jira_issues_list_data, in_redis_issues_ids,
                   in_planfix_ids, not_in_planfix_ids, comments_response, comments_data,
                   ghostVars, besideJob>>

(***************************************************************************)
(* upload_issues_to_planfix, lines 230-380.                                *)
(***************************************************************************)
InUpload(i) == i.id \in Range(upload_issues_to_planfix_ids)

\* the elements of issue_hash_list that line 247 lets through
Selected == SelectSeq(jira_issues_list_data, InUpload)

AfterUpsert == IF idx = Len(Selected) THEN "get_issue_link" ELSE "upsert_issue_hash"

\* lines 246-257: the issue record is written first
UpsertIssueHashOk ==
    /\ pc = "upsert_issue_hash"
    /\ LET h == IssueHash(Selected[idx])
       IN  /\ issue' = [issue EXCEPT ![h.issue_id] =
                           upsert_issue_hash(@, h.h_description, h.h_attachment, passes)]
           /\ calls' = Append(calls, Call("upsert_issue_hash", h.issue_id, "ok"))
    /\ pc' = AfterUpsert
    /\ idx' = idx + 1
    /\ UNCHANGED <<passes, edits, failures, exit_code, sourceVars, issue_link,
                   comment_link, planfixVars, downloads, localVars, ghostVars, besideJob>>

\* lines 258-265: the store raises, the failure is alerted and the loop goes on
UpsertIssueHashFail ==
    /\ pc = "upsert_issue_hash"
    /\ MayFail
    /\ failures' = failures + 1
    /\ LET j == Selected[idx].id
       IN  calls' = calls \o <<Call("upsert_issue_hash", j, "fail"), Alert(j)>>
    /\ pc' = AfterUpsert
    /\ idx' = idx + 1
    /\ UNCHANGED <<passes, edits, exit_code, sourceVars, storeVars, planfixVars,
                   downloads, localVars, ghostVars, besideJob>>

HasLink(j) == get(issue_link[j]) # None
\* a variant of lines 275-276 that takes only an issue without a record as unlinked
NoLinkNoRecord(j) == ~HasLink(j) /\ ~EXISTS(issue[j])
NoLink(j) == ~HasLink(j)

\* lines 267-276
GetIssueLinks ==
    /\ pc = "get_issue_link"
    /\ LET linked == SelectSeq(upload_issues_to_planfix_ids, HasLink)
           inp == [i \in DOMAIN linked |-> <<issue_link[linked[i]]["p_issue"], linked[i]>>]
           notin == SelectSeq(upload_issues_to_planfix_ids, NoLink)
       IN  /\ in_planfix_ids' = inp
           /\ not_in_planfix_ids' = notin
           /\ pc' = IF inp # <<>> THEN "update_description_task"
                    ELSE IF notin # <<>> THEN "add_task" ELSE "comments"
    /\ idx' = 1
    /\ UNCHANGED <<passes, edits, failures, exit_code, sourceVars, storeVars,
                   planfixVars, downloads, jira_issues_list_data, in_redis_issues_ids,
                   upload_issues_to_planfix_ids, updated_issues_data, comments_response,
                   comments_data, calls, ghostVars, besideJob>>

HasFlags(j) == \E i \in DOMAIN updated_issues_data : updated_issues_data[i].id = j

\* line 281 outside any try: next() finds no change flags for the issue, and the
\* StopIteration leaves the coroutine as a RuntimeError
NoFlagsRaises ==
    /\ pc = "update_description_task"
    /\ ~HasFlags(in_planfix_ids[idx][2])
    /\ pc' = "raised"
    /\ UNCHANGED <<passes, edits, failures, exit_code, sourceVars, storeVars,
                   planfixVars, downloads, localVars, idx, calls, ghostVars, besideJob>>

\* lines 284-294: no description change, or update_description_task succeeds
UpdateDescriptionOk ==
    /\ pc = "update_description_task"
    /\ LET j == in_planfix_ids[idx][2]
       IN  /\ HasFlags(j)
           /\ calls' = IF ById(updated_issues_data, j).h_description
                       THEN Append(calls, Call("update_description_task", j, "ok"))
                       ELSE calls
    /\ pc' = "update_attachment"
    /\ UNCHANGED <<passes, edits, failures, exit_code, sourceVars, storeVars,
                   planfixVars, downloads, localVars, idx, ghostVars, besideJob>>

\* lines 295-300: update_description_task raises RuntimeError (status not 200)
UpdateDescriptionRuntimeError ==
    /\ pc = "update_description_task"
    /\ MayFail
    /\ LET j == in_planfix_ids[idx][2]
       IN  /\ HasFlags(j)
           /\ ById(updated_issues_data, j).h_description
           /\ calls' = calls \o <<Call("update_description_task", j, "RuntimeError"), Alert(j)>>
    /\ failures' = failures + 1
    /\ pc' = "update_attachment"
    /\ UNCHANGED <<passes, edits, exit_code, sourceVars, storeVars, planfixVars,
                   downloads, localVars, idx, ghostVars, besideJob>>

\* planfix/methods.py 198-199: on an httpx.HTTPError the handler reads r, which is
\* unbound: UnboundLocalError, which `except RuntimeError` does not catch
UpdateDescriptionOtherError ==
    /\ pc = "update_description_task"
    /\ MayFail
    /\ LET j == in_planfix_ids[idx][2]
       IN  /\ HasFlags(j)
           /\ ById(updated_issues_data, j).h_description
           /\ calls' = Append(calls, Call("update_description_task", j, "UnboundLocalError"))
    /\ failures' = failures + 1
    /\ pc' = "raised"
    /\ UNCHANGED <<passes, edits, exit_code, sourceVars, storeVars, planfixVars,
                   downloads, localVars, idx, ghostVars, besideJob>>

(***************************************************************************)
(* The attachment step of both branches: jira.get_issue_attachments into   *)
(* downloads/<issue_key>, then planfix.upload_file from                    *)
(* downloads/<jira_task_id>.                                               *)
(***************************************************************************)
Files(dir) == IF dir \in DOMAIN downloads THEN downloads[dir] ELSE {}

\* jira/methods.py 151-177: the directory is made, every attachment is saved
Downloaded(atts, issue_key) == SetFn(downloads, issue_key, Files(issue_key) \cup Range(atts))

\* ... or the download of attachment k raises: Exception("Error occurred: ...")
PartlyDownloaded(atts, issue_key, k) ==
    SetFn(downloads, issue_key, Files(issue_key) \cup { atts[i] : i \in 1..(k-1) })

AttachUnchanged == UNCHANGED <<passes, edits, exit_code, sourceVars, storeVars,
                               planfixVars, localVars, ghostVars, besideJob>>

\* the guarding condition (line 303, line 360) is false
AttachSkip(nxt, nidx) ==
    /\ pc' = nxt
    /\ idx' = nidx
    /\ UNCHANGED <<failures, downloads, calls>>
    /\ AttachUnchanged

\* get_issue_attachments raises a plain Exception: `except RuntimeError` lets it through
AttachDownloadFail(atts, issue_key, j) ==
    /\ MayFail
    /\ \E k \in 1..Len(atts) : downloads' = PartlyDownloaded(atts, issue_key, k)
    /\ failures' = failures + 1
    /\ calls' = Append(calls, CallA("get_issue_attachments", j, "Exception", {issue_key}))
    /\ pc' = "raised"
    /\ UNCHANGED idx
    /\ AttachUnchanged

\* planfix/methods.py 221-223: downloads/<jira_task_id> does not exist
AttachNoDirectory(atts, issue_key, j) ==
    /\ j \notin DOMAIN Downloaded(atts, issue_key)
    /\ downloads' = Downloaded(atts, issue_key)
    /\ calls' = calls \o <<CallA("get_issue_attachments", j, "ok", {issue_key}),
                           CallA("upload_file", j, "FileNotFoundError", {})>>
    /\ pc' = "raised"
    /\ UNCHANGED <<failures, idx>>
    /\ AttachUnchanged

\* both calls succeed: the files of downloads/<jira_task_id> are uploaded
AttachOk(atts, issue_key, j, nxt, nidx) ==
    /\ j \in DOMAIN Downloaded(atts, issue_key)
    /\ downloads' = Downloaded(atts, issue_key)
    /\ calls' = calls \o <<CallA("get_issue_attachments", j, "ok", {issue_key}),
                           CallA("upload_file", j, "ok", Downloaded(atts, issue_key)[j])>>
    /\ pc' = nxt
    /\ idx' = nidx
    /\ UNCHANGED failures
    /\ AttachUnchanged

\* upload_file raises RuntimeError (status not 200): alert, go on
AttachUploadRuntimeError(atts, issue_key, j, nxt, nidx) ==
    /\ MayFail
    /\ j \in DOMAIN Downloaded(atts, issue_key)
    /\ downloads' = Downloaded(atts, issue_key)
    /\ failures' = failures + 1
    /\ calls' = calls \o <<CallA("get_issue_attachments", j, "ok", {issue_key}),
                           CallA("upload_file", j, "RuntimeError", {}), Alert(j)>>
    /\ pc' = nxt
    /\ idx' = nidx
    /\ AttachUnchanged

\* planfix/methods.py 270-271: the post raises and the handler reads the unbound r
AttachUploadOtherError(atts, issue_key, j) ==
    /\ MayFail
    /\ j \in DOMAIN Downloaded(atts, issue_key)
    /\ downloads' = Downloaded(atts, issue_key)
    /\ failures' = failures + 1
    /\ calls' = calls \o <<CallA("get_issue_attachments", j, "ok", {issue_key}),
                           CallA("upload_file", j, "UnboundLocalError", {})>>
    /\ pc' = "raised"
    /\ UNCHANGED idx
    /\ AttachUnchanged

\* lines 302-324: the known, linked issue; issue_key is the Planfix task id
AfterInPlanfixPc ==
    IF idx < Len(in_planfix_ids) THEN "update_description_task"
    ELSE IF not_in_planfix_ids # <<>> THEN "add_task" ELSE "comments"
AfterInPlanfixIdx == IF idx < Len(in_planfix_ids) THEN idx + 1 ELSE 1

UpdAtts == ById(jira_issues_list_data, in_planfix_ids[idx][2]).attachment
UpdFlag == ById(updated_issues_data, in_planfix_ids[idx][2]).h_attachment

UpdateAttachmentSkip ==
    /\ pc = "update_attachment" /\ ~UpdFlag
    /\ AttachSkip(AfterInPlanfixPc, AfterInPlanfixIdx)
UpdateAttachmentDownloadFail ==
    /\ pc = "update_attachment" /\ UpdFlag
    /\ AttachDownloadFail(UpdAtts, in_planfix_ids[idx][1], in_planfix_ids[idx][2])
UpdateAttachmentNoDirectory ==
    /\ pc = "update_attachment" /\ UpdFlag
    /\ AttachNoDirectory(UpdAtts, in_planfix_ids[idx][1], in_planfix_ids[idx][2])
UpdateAttachmentOk ==
    /\ pc = "update_attachment" /\ UpdFlag
    /\ AttachOk(UpdAtts, in_planfix_ids[idx][1], in_planfix_ids[idx][2],
                AfterInPlanfixPc, AfterInPlanfixIdx)
UpdateAttachmentRuntimeError ==
    /\ pc = "update_attachment" /\ UpdFlag
    /\ AttachUploadRuntimeError(UpdAtts, in_planfix_ids[idx][1], in_planfix_ids[idx][2],
                                AfterInPlanfixPc, AfterInPlanfixIdx)
UpdateAttachmentOtherError ==
    /\ pc = "update_attachment" /\ UpdFlag
    /\ AttachUploadOtherError(UpdAtts, in_planfix_ids[idx][1], in_planfix_ids[idx][2])

(***************************************************************************)
(* lines 326-380: the issues without a link record.                        *)
(***************************************************************************)
\* lines 334-357: add_task returns the new task's id, the link is written
AddTaskOk ==
    /\ pc = "add_task"
    /\ LET j == not_in_planfix_ids[idx]
           p_issue_id == TaskId(Len(p_tasks) + 1)
       IN  /\ p_tasks' = Append(p_tasks, j)
           /\ issue_link' = [issue_link EXCEPT ![j] = UPSERT_LINK_LUA(@, j, p_issue_id, passes)]
           /\ calls' = calls \o <<CallA("add_task", j, "ok", {p_issue_id}),
                                  CallA("upsert_issue_link", j, "ok", {p_issue_id})>>
    /\ pc' = "upload_attachment"
    /\ UNCHANGED <<passes, edits, failures, exit_code, sourceVars, issue, comment_link,
                   p_comments, downloads, localVars, idx, ghostVars, besideJob>>

\* line 355 outside any try: add_task has made the task, then the store raises in
\* upsert_issue_link and the exception leaves job()
AddTaskLinkFail ==
    /\ pc = "add_task"
    /\ MayFail
    /\ failures' = failures + 1
    /\ LET j == not_in_planfix_ids[idx]
           p_issue_id == TaskId(Len(p_tasks) + 1)
       IN  /\ p_tasks' = Append(p_tasks, j)
           /\ calls' = calls \o <<CallA("add_task", j, "ok", {p_issue_id}),
                                  CallA("upsert_issue_link", j, "fail", {p_issue_id})>>
    /\ pc' = "raised"
    /\ UNCHANGED <<passes, edits, exit_code, sourceVars, storeVars, p_comments,
                   downloads, localVars, idx, ghostVars, besideJob>>

\* lines 346-352: add_task raises RuntimeError: alert, and `return` leaves the function
AddTaskRuntimeError ==
    /\ pc = "add_task"
    /\ MayFail
    /\ failures' = failures + 1
    /\ LET j == not_in_planfix_ids[idx]
       IN  calls' = calls \o <<Call("add_task", j, "RuntimeError"), Alert(j)>>
    /\ pc' = "comments"
    /\ idx' = 1
    /\ UNCHANGED <<passes, edits, exit_code, sourceVars, storeVars, planfixVars,
                   downloads, localVars, ghostVars, besideJob>>

AfterNewPc == IF idx < Len(not_in_planfix_ids) THEN "add_task" ELSE "comments"
AfterNewIdx == IF idx < Len(not_in_planfix_ids) THEN idx + 1 ELSE 1

NewAtts == ById(jira_issues_list_data, not_in_planfix_ids[idx]).attachment

\* lines 359-380: issue_key is the Jira issue id
UploadAttachmentSkip ==
    /\ pc = "upload_attachment" /\ NewAtts = <<>>
    /\ AttachSkip(AfterNewPc, AfterNewIdx)
UploadAttachmentDownloadFail ==
    /\ pc = "upload_attachment" /\ NewAtts # <<>>
    /\ AttachDownloadFail(NewAtts, not_in_planfix_ids[idx], not_in_planfix_ids[idx])
UploadAttachmentOk ==
    /\ pc = "upload_attachment" /\ NewAtts # <<>>
    /\ AttachOk(NewAtts, not_in_planfix_ids[idx], not_in_planfix_ids[idx],
                AfterNewPc, AfterNewIdx)
UploadAttachmentRuntimeError ==
    /\ pc = "upload_attachment" /\ NewAtts # <<>>
    /\ AttachUploadRuntimeError(NewAtts, not_in_planfix_ids[idx], not_in_planfix_ids[idx],
                                AfterNewPc, AfterNewIdx)
UploadAttachmentOtherError ==
    /\ pc = "upload_attachment" /\ NewAtts # <<>>
    /\ AttachUploadOtherError(NewAtts, not_in_planfix_ids[idx], not_in_planfix_ids[idx])

(***************************************************************************)
(* comments, lines 78-180.                                                 *)
(***************************************************************************)
CommentAuthor(c) == "u"

\* the `created` string of a comment; comment 12 was written before comment 11
CommentCreated(c) == IF c = 12 THEN "t1" ELSE "t2"

\* jira/methods.py 180-199: the time a `created` string denotes
parse_jira_dt(created) ==
    CASE created = "t1" -> 1 [] created = "t2" -> 2 [] OTHER -> 0

\* jira/methods.py 228-237: the row made of one comment of the response
CommentRow(c, issue_id) ==
    [id |-> c, issue_id |-> issue_id, author |-> CommentAuthor(c),
     created |-> CommentCreated(c), description |-> j_comments[c].description]

\* a variant of line 244 that leaves the rows as Jira returned them
Unsorted(rows) == rows

\* rows.sort(key=lambda x: x["_created_dt"]): a stable sort by creation time
RECURSIVE SortByCreated(_)
SortByCreated(rows) ==
    IF rows = <<>> THEN <<>>
    ELSE LET row == rows[Len(rows)]
             before == SortByCreated(SubSeq(rows, 1, Len(rows) - 1))
             NotLater(r) == parse_jira_dt(r.created) <= parse_jira_dt(row.created)
             Later(r) == ~NotLater(r)
         IN  SelectSeq(before, NotLater) \o <<row>> \o SelectSeq(before, Later)

\* the orders in which Jira may return the comments of the fetched issues: one
\* response per issue, the responses one after the other
RECURSIVE Responses(_)
Responses(data) ==
    IF data = <<>> THEN {<<>>}
    ELSE LET of_issue == { c \in DOMAIN j_comments : CommentIssue(c) = Head(data).id }
         IN  { r \o rest : r \in SeqsOf(of_issue), rest \in Responses(Tail(data)) }

\* jira.get_issue_comments(issue_id), Jira returning the comments in the order resp
get_issue_comments(issue_id, resp) ==
    LET OfIssue(c) == CommentIssue(c) = issue_id
        ids == SelectSeq(resp, OfIssue)
    IN  SortByCreated([i \in DOMAIN ids |-> CommentRow(ids[i], issue_id)])

\* the comment lists of the fetched issues, one after the other
RECURSIVE AllComments(_, _)
AllComments(data, resp) ==
    IF data = <<>> THEN <<>>
    ELSE get_issue_comments(Head(data).id, resp) \o AllComments(Tail(data), resp)

\* lines 91-92: the gather of get_issue_comments succeeds
GetCommentsOk ==
    /\ pc = "comments"
    /\ \E resp \in Responses(jira_issues_list_data) :
          /\ comments_response' = resp
          /\ comments_data' = AllComments(jira_issues_list_data, resp)
          /\ pc' = IF AllComments(jira_issues_list_data, resp) = <<>> THEN "done" ELSE "comment"
    /\ calls' = IF jira_issues_list_data = <<>> THEN calls
                ELSE Append(calls, Call("get_issue_comments", 0, "ok"))
    /\ idx' = 1
    /\ UNCHANGED <<passes, edits, failures, exit_code, sourceVars, storeVars,
                   planfixVars, downloads, jira_issues_list_data, in_redis_issues_ids,
                   upload_issues_to_planfix_ids, updated_issues_data, in_planfix_ids,
                   not_in_planfix_ids, ghostVars, besideJob>>

\* ... or one get_issue_comments raises: nothing in comments() catches it
GetCommentsFail ==
    /\ pc = "comments"
    /\ jira_issues_list_data # <<>>
    /\ MayFail
    /\ failures' = failures + 1
    /\ calls' = Append(calls, Call("get_issue_comments", 0, "HTTPStatusError"))
    /\ pc' = "raised"
    /\ UNCHANGED <<passes, edits, exit_code, sourceVars, storeVars, planfixVars,
                   downloads, localVars, idx, ghostVars, besideJob>>

\* a variant of lines 103-105 and 162-163 that hashes the body of the comment alone
CommentHashBody(data) == hash_text(canon_text(data.description))

\* lines 103-105 and 162-163
CommentHash(data) == hash_text(canon_text(comment_description_format(data)))

AfterCommentPc == IF idx < Len(comments_data) THEN "comment" ELSE "done"

CommentUnchangedVars == <<passes, edits, exit_code, sourceVars, issue, issue_link,
                          p_tasks, downloads, localVars, ghostVars, besideJob>>

Found(data) == get(comment_link[data.id]) # None

\* lines 101-109: the comment is known and its hash is the stored one
CommentEqual ==
    /\ pc = "comment"
    /\ LET data == comments_data[idx]
       IN  /\ Found(data)
           /\ hashes_equal(comment_link[data.id]["h_description"], CommentHash(data))
    /\ pc' = AfterCommentPc
    /\ idx' = idx + 1
    /\ UNCHANGED <<failures, comment_link, p_comments, calls>>
    /\ UNCHANGED CommentUnchangedVars

\* lines 111-126: update_comment, then upsert_comment
UpdateCommentOk ==
    /\ pc = "comment"
    /\ LET data == comments_data[idx]
           redis_comment == comment_link[data.id]
       IN  /\ Found(data)
           /\ ~hashes_equal(redis_comment["h_description"], CommentHash(data))
           /\ comment_link' = [comment_link EXCEPT ![data.id] =
                 UPSERT_COMMENT_LUA(@, data.id, redis_comment["comment_p_id"],
                                    redis_comment["p_issue_id"], CommentHash(data), passes)]
           /\ calls' = calls \o
                 <<CallA("update_comment", data.id, "ok", {redis_comment["comment_p_id"]}),
                   Call("upsert_comment", data.id, "ok")>>
    /\ pc' = AfterCommentPc
    /\ idx' = idx + 1
    /\ UNCHANGED <<failures, p_comments>>
    /\ UNCHANGED CommentUnchangedVars

\* lines 130-135: update_comment raises RuntimeError: alert, next comment
UpdateCommentRuntimeError ==
    /\ pc = "comment"
    /\ MayFail
    /\ LET data == comments_data[idx]
       IN  /\ Found(data)
           /\ ~hashes_equal(comment_link[data.id]["h_description"], CommentHash(data))
           /\ calls' = calls \o <<Call("update_comment", data.id, "RuntimeError"),
                                  Alert(data.issue_id)>>
    /\ failures' = failures + 1
    /\ pc' = AfterCommentPc
    /\ idx' = idx + 1
    /\ UNCHANGED <<comment_link, p_comments>>
    /\ UNCHANGED CommentUnchangedVars

\* lines 120-126: update_comment has succeeded, then the store raises in
\* upsert_comment; `except RuntimeError` does not catch it
UpdateCommentUpsertFail ==
    /\ pc = "comment"
    /\ MayFail
    /\ LET data == comments_data[idx]
           redis_comment == comment_link[data.id]
       IN  /\ Found(data)
           /\ ~hashes_equal(redis_comment["h_description"], CommentHash(data))
           /\ calls' = calls \o
                 <<CallA("update_comment", data.id, "ok", {redis_comment["comment_p_id"]}),
                   Call("upsert_comment", data.id, "fail")>>
    /\ failures' = failures + 1
    /\ pc' = "raised"
    /\ UNCHANGED <<comment_link, p_comments, idx>>
    /\ UNCHANGED CommentUnchangedVars

\* planfix/methods.py 372-373: the post raises and the handler reads the unbound r
UpdateCommentOtherError ==
    /\ pc = "comment"
    /\ MayFail
    /\ LET data == comments_data[idx]
       IN  /\ Found(data)
           /\ ~hashes_equal(comment_link[data.id]["h_description"], CommentHash(data))
           /\ calls' = Append(calls, Call("update_comment", data.id, "UnboundLocalError"))
    /\ failures' = failures + 1
    /\ pc' = "raised"
    /\ UNCHANGED <<comment_link, p_comments, idx>>
    /\ UNCHANGED CommentUnchangedVars

\* lines 139-148: no comment record and no link record of the issue
CommentNoLink ==
    /\ pc = "comment"
    /\ LET data == comments_data[idx]
       IN  /\ ~Found(data)
           /\ get(issue_link[data.issue_id]) = None
           /\ calls' = Append(calls, Alert(data.issue_id))
    /\ pc' = AfterCommentPc
    /\ idx' = idx + 1
    /\ UNCHANGED <<failures, comment_link, p_comments>>
    /\ UNCHANGED CommentUnchangedVars

\* lines 150-173: add_comment, then upsert_comment
AddCommentOk ==
    /\ pc = "comment"
    /\ LET data == comments_data[idx]
           jira_planfix_link == issue_link[data.issue_id]
           comment_p_id == CommentPId(Len(p_comments) + 1)
       IN  /\ ~Found(data)
           /\ get(jira_planfix_link) # None
           /\ p_comments' = Append(p_comments, data.id)
           /\ comment_link' = [comment_link EXCEPT ![data.id] =
                 UPSERT_COMMENT_LUA(@, data.id, comment_p_id,
                                    jira_planfix_link["p_issue"], CommentHash(data), passes)]
           /\ calls' = calls \o
                 <<CallA("add_comment", data.id, "ok", {jira_planfix_link["p_issue"]}),
                   Call("upsert_comment", data.id, "ok")>>
    /\ pc' = AfterCommentPc
    /\ idx' = idx + 1
    /\ UNCHANGED failures
    /\ UNCHANGED CommentUnchangedVars

\* lines 165-180: add_comment has made the comment, then the store raises in
\* upsert_comment: alert, next comment
AddCommentUpsertFail ==
    /\ pc = "comment"
    /\ MayFail
    /\ LET data == comments_data[idx]
           jira_planfix_link == issue_link[data.issue_id]
       IN  /\ ~Found(data)
           /\ get(jira_planfix_link) # None
           /\ p_comments' = Append(p_comments, data.id)
           /\ calls' = calls \o
                 <<CallA("add_comment", data.id, "ok", {jira_planfix_link["p_issue"]}),
                   Call("upsert_comment", data.id, "fail"), Alert(data.issue_id)>>
    /\ failures' = failures + 1
    /\ pc' = AfterCommentPc
    /\ idx' = idx + 1
    /\ UNCHANGED comment_link
    /\ UNCHANGED CommentUnchangedVars

\* a variant of lines 174-180 whose handler records the comment as mirrored
AddCommentFailRecorded ==
    /\ pc = "comment"
    /\ MayFail
    /\ LET data == comments_data[idx]
       IN  /\ ~Found(data)
           /\ get(issue_link[data.issue_id]) # None
           /\ comment_link' = [comment_link EXCEPT ![data.id] =
                 UPSERT_COMMENT_LUA(@, data.id, 0, issue_link[data.issue_id]["p_issue"],
                                    CommentHash(data), passes)]
           /\ calls' = calls \o <<Call("add_comment", data.id, "RuntimeError"),
                                  Alert(data.issue_id)>>
    /\ failures' = failures + 1
    /\ pc' = AfterCommentPc
    /\ idx' = idx + 1
    /\ UNCHANGED p_comments
    /\ UNCHANGED CommentUnchangedVars

\* lines 174-180: add_comment raises: alert, next comment
AddCommentFail ==
    /\ pc = "comment"
    /\ MayFail
    /\ LET data == comments_data[idx]
       IN  /\ ~Found(data)
           /\ get(issue_link[data.issue_id]) # None
           /\ calls' = calls \o <<Call("add_comment", data.id, "RuntimeError"),
                                  Alert(data.issue_id)>>
    /\ failures' = failures + 1
    /\ pc' = AfterCommentPc
    /\ idx' = idx + 1
    /\ UNCHANGED <<comment_link, p_comments>>
    /\ UNCHANGED CommentUnchangedVars

(***************************************************************************)
(* main(), lines 451-459.                                                  *)
(***************************************************************************)
NoCallFailed == \A i \in DOMAIN calls : calls[i].res = "ok"

ClearLocals ==
    /\ jira_issues_list_data' = <<>>
    /\ in_redis_issues_ids' = <<>>
    /\ upload_issues_to_planfix_ids' = <<>>
    /\ updated_issues_data' = <<>>
    /\ in_planfix_ids' = <<>>
    /\ not_in_planfix_ids' = <<>>
    /\ comments_response' = <<>>
    /\ comments_data' = <<>>
    /\ idx' = 0
    /\ calls' = <<>>

\* the add_comment and update_comment calls of this pass that failed, as pairs of
\* the operation and the Jira comment id
FailedCommentCalls ==
    { <<calls[i].op, calls[i].id>> :
         i \in { k \in DOMAIN calls : /\ calls[k].op \in {"add_comment", "update_comment"}
                                      /\ calls[k].res # "ok" } }

\* job() returns; the finally clause sleeps SLEEP_INTERVAL
JobReturns ==
    /\ pc = "done"
    /\ pc' = "idle"
    /\ lastClean' = NoCallFailed
    /\ to_retry' = FailedCommentCalls
    /\ ClearLocals
    /\ UNCHANGED <<passes, edits, failures, exit_code, sourceVars, storeVars,
                   planfixVars, downloads, edited, quiet, besideJob>>
    /\ start' = NoStart

\* a variant of lines 456-459 in which the exception ends the process
MainLetsThrough ==
    /\ pc = "raised"
    /\ pc' = "exited"
    /\ exit_code' = 1
    /\ UNCHANGED <<passes, edits, failures, sourceVars, storeVars, planfixVars,
                   downloads, localVars, idx, calls, ghostVars, besideJob>>

\* job() raises an Exception: main() logs it; the finally clause sleeps
MainCatches ==
    /\ pc = "raised"
    /\ pc' = "idle"
    /\ lastClean' = FALSE
    /\ to_retry' = FailedCommentCalls
    /\ ClearLocals
    /\ UNCHANGED <<passes, edits, failures, exit_code, sourceVars, storeVars,
                   planfixVars, downloads, edited, quiet, besideJob>>
    /\ start' = NoStart

Next ==
    \/ NewIssue \/ EditDescription \/ EditAttachments \/ EditComment
    \/ JobFetchOk \/ JobFetchFail \/ GetSidOk \/ GetSidFail \/ SysExit
    \/ InRedisIssues
    \/ UpsertIssueHashOk \/ UpsertIssueHashFail \/ GetIssueLinks
    \/ NoFlagsRaises
    \/ UpdateDescriptionOk \/ UpdateDescriptionRuntimeError \/ UpdateDescriptionOtherError
    \/ UpdateAttachmentSkip \/ UpdateAttachmentDownloadFail \/ UpdateAttachmentNoDirectory
    \/ UpdateAttachmentOk \/ UpdateAttachmentRuntimeError \/ UpdateAttachmentOtherError
    \/ AddTaskOk \/ AddTaskLinkFail \/ AddTaskRuntimeError
    \/ UploadAttachmentSkip \/ UploadAttachmentDownloadFail \/ UploadAttachmentOk
    \/ UploadAttachmentRuntimeError \/ UploadAttachmentOtherError
    \/ GetCommentsOk \/ GetCommentsFail
    \/ CommentEqual \/ UpdateCommentOk \/ UpdateCommentRuntimeError
    \/ UpdateCommentUpsertFail \/ UpdateCommentOtherError
    \/ CommentNoLink \/ AddCommentOk \/ AddCommentUpsertFail \/ AddCommentFail
    \/ JobReturns \/ MainCatches

Spec == Init /\ [][Next]_vars

(***************************************************************************)
(* jira/methods.py 107-148: _download_with_retries, one call of it.        *)
(***************************************************************************)
\* what one attempt can meet: a response with a status code, or an exception
StatusCodes == {200, 404, 429, 500, 503}
CaughtExceptions == {"ConnectTimeout", "ReadTimeout", "RemoteProtocolError", "NetworkError"}
OtherExceptions == {"OSError"}          \* not named by the except clause of line 137
RandomBytes == {0, 1, 127, 128, 254, 255}   \* os.urandom(1): some of the 256 bytes

\* lines 120-121 and 141-143
RetryableStatus(code) == code = 429 \/ (500 <= code /\ code < 600)

\* lines 139-143: the flag `retryable` of the handler
retryable(event, code) ==
    IF event = "HTTPStatusError" THEN RetryableStatus(code)
    ELSE event \in CaughtExceptions

\* a variant of line 144 that lets one more attempt through
GivesUpLate(event, code, n) == ~retryable(event, code) \/ n > max_retries

\* line 144: the handler gives up
GivesUp(event, code, n) == ~retryable(event, code) \/ n >= max_retries

Min(a, b) == IF a <= b THEN a ELSE b

\* lines 146-147, in units of 1/1020 s: min(8.0, 0.5 * 2**(attempt-1)), then the jitter
Delay(n, byte) == Min(16, 2^(n - 1)) * (255 + byte)

JobAtRest ==
    /\ pc = "idle" /\ passes = 0 /\ edits = 0 /\ failures = 0 /\ exit_code = None
    /\ j_issues = <<>> /\ j_comments = <<>>
    /\ issue = [j \in IssueIds |-> NoKey]
    /\ issue_link = [j \in IssueIds |-> NoKey]
    /\ comment_link = [c \in CommentIds |-> NoKey]
    /\ p_tasks = <<>> /\ p_comments = <<>> /\ downloads = <<>>
    /\ NoLocals
    /\ edited = FALSE /\ lastClean = FALSE /\ quiet = FALSE /\ start = NoStart
    /\ to_retry = {}

InitDownload ==
    /\ JobAtRest
    /\ StIdle
    /\ FnIdle
    /\ TextIdle
    /\ SeqIdle
    /\ PagesIdle
    /\ dl_pc = "loop"
    /\ attempt = 0
    /\ dl_event = "none"
    /\ dl_status = 0
    /\ dl_delay = 0

\* lines 117-136: the attempt gets a response
AttemptResponse ==
    /\ dl_pc = "loop"
    /\ attempt' = attempt + 1
    /\ \E code \in StatusCodes :
          /\ dl_status' = code
          /\ IF RetryableStatus(code) \/ code >= 400
             THEN dl_event' = "HTTPStatusError" /\ dl_pc' = "except"
             ELSE dl_event' = "saved" /\ dl_pc' = "returned"
    /\ UNCHANGED <<dl_delay, besideDownload>>

\* the request, or the reading of the body, raises
AttemptRaises ==
    /\ dl_pc = "loop"
    /\ attempt' = attempt + 1
    /\ dl_status' = 0
    /\ \E e \in CaughtExceptions \cup OtherExceptions :
          /\ dl_event' = e
          /\ dl_pc' = IF e \in CaughtExceptions THEN "except" ELSE "raised"
    /\ UNCHANGED <<dl_delay, besideDownload>>

\* lines 144-145
HandlerRaises ==
    /\ dl_pc = "except"
    /\ GivesUp(dl_event, dl_status, attempt)
    /\ dl_pc' = "raised"
    /\ UNCHANGED <<attempt, dl_event, dl_status, dl_delay, besideDownload>>

\* lines 146-148
HandlerSleeps ==
    /\ dl_pc = "except"
    /\ ~GivesUp(dl_event, dl_status, attempt)
    /\ \E byte \in RandomBytes : dl_delay' = Delay(attempt, byte)
    /\ dl_pc' = "sleep"
    /\ UNCHANGED <<attempt, dl_event, dl_status, besideDownload>>

\* asyncio.sleep(delay) is over: the loop goes round
SleepOver ==
    /\ dl_pc = "sleep"
    /\ dl_pc' = "loop"
    /\ UNCHANGED <<attempt, dl_event, dl_status, dl_delay, besideDownload>>

NextDownload ==
    \/ AttemptResponse \/ AttemptRaises \/ HandlerRaises \/ HandlerSleeps \/ SleepOver

SpecDownload == InitDownload /\ [][NextDownload]_vars /\ WF_vars(NextDownload)

(***************************************************************************)
(* utils/hash.py 51-57 and __main__.py 205-213: the two comparisons of     *)
(* digests, each applied once to arguments drawn from HashArgs.            *)
(***************************************************************************)
\* what a digest argument can be: None, "", or a digest
HashArgs ==
    {None, <<>>, hash_attachment_id(<<7>>), hash_attachment_id(<<7, 8>>),
     hash_text(<<"a">>), hash_text(<<"b">>)}

InitHash ==
    /\ JobAtRest
    /\ DlIdle
    /\ StIdle
    /\ TextIdle
    /\ SeqIdle
    /\ PagesIdle
    /\ arg_h1 \in HashArgs
    /\ arg_h2 \in HashArgs
    /\ applied = "none"
    /\ returned = FALSE

\* hashes_equal(h1=arg_h1, h2=arg_h2)
ApplyHashesEqual ==
    /\ applied = "none"
    /\ applied' = "hashes_equal"
    /\ returned' = hashes_equal(arg_h1, arg_h2)
    /\ UNCHANGED <<arg_h1, arg_h2, besideHash>>

\* get_issue (repository.py 84-90): the record of an issue as in_redis_issues gets
\* it; HGETALL gives h_attachment as a string, the empty one included
StoredIssue(h_attachment) ==
    IF h_attachment = None THEN [h_description |-> hash_text(<<"a">>)]
    ELSE [h_description |-> hash_text(<<"a">>), h_attachment |-> h_attachment]

\* lines 205-213 of in_redis_issues on a record that holds arg_h1 and a fetched
\* issue whose h_attachment is arg_h2
ApplyEqualAttachment ==
    /\ applied = "none"
    /\ applied' = "equal_attachment"
    /\ returned' = equal_attachment(StoredIssue(arg_h1),
                                    [issue_id |-> 1, h_description |-> hash_text(<<"a">>),
                                     h_attachment |-> arg_h2])
    /\ UNCHANGED <<arg_h1, arg_h2, besideHash>>

NextHash == ApplyHashesEqual \/ ApplyEqualAttachment

SpecHash == InitHash /\ [][NextHash]_vars

(***************************************************************************)
(* utils/hash.py 18-37: canon_text applied to a text drawn from Texts, and *)
(* applied again to what it returned, as hash_text does (line 35).         *)
(***************************************************************************)
TextTokens == {"a", "A", " ", "\n", "<", ">", "&lt;", "&gt;"}
Texts == UNION { [1..n -> TextTokens] : n \in 0..MaxTextLen }

InitText ==
    /\ JobAtRest
    /\ DlIdle
    /\ StIdle
    /\ FnIdle
    /\ SeqIdle
    /\ PagesIdle
    /\ s_in \in Texts
    /\ s_canon = None
    /\ s_again = None

\* text = h.canon_text(s=...), __main__.py line 30
ApplyCanonText ==
    /\ s_canon = None
    /\ s_canon' = canon_text(s_in)
    /\ UNCHANGED <<s_in, s_again, besideText>>

\* text = canon_text(text), hash.py line 35, in hash_text
ApplyCanonTextAgain ==
    /\ s_canon # None
    /\ s_again = None
    /\ s_again' = canon_text(s_canon)
    /\ UNCHANGED <<s_in, s_canon, besideText>>

NextText == ApplyCanonText \/ ApplyCanonTextAgain

SpecText == InitText /\ [][NextText]_vars

(***************************************************************************)
(* utils/hash.py 39-49: hash_attachment_id applied to two lists of ids.    *)
(***************************************************************************)
SeqIds == {7, 9, 10}
IdLists == UNION { [1..n -> SeqIds] : n \in 0..MaxIds }

InitSeq ==
    /\ JobAtRest
    /\ DlIdle
    /\ StIdle
    /\ FnIdle
    /\ TextIdle
    /\ PagesIdle
    /\ ints_a \in IdLists
    /\ ints_b \in IdLists
    /\ digest_a = None
    /\ digest_b = None

ApplyHashAttachmentId ==
    /\ digest_a = None
    /\ digest_a' = hash_attachment_id(ints_a)
    /\ digest_b' = hash_attachment_id(ints_b)
    /\ UNCHANGED <<ints_a, ints_b, besideSeq>>

NextSeq == ApplyHashAttachmentId

SpecSeq == InitSeq /\ [][NextSeq]_vars

(***************************************************************************)
(* jira/methods.py 202-247: get_issue_comments on its own, reading the     *)
(* comments of one issue page by page while Jira's users add and delete    *)
(* comments.  A comment is its id; ids grow with the creation time.        *)
(***************************************************************************)
PageCommentIds == 1..MaxComments

InitPages ==
    /\ JobAtRest
    /\ DlIdle
    /\ StIdle
    /\ FnIdle
    /\ TextIdle
    /\ SeqIdle
    /\ pg_pc = "request"
    /\ \E n \in 0..(MaxComments - 1) : pg_server = [i \in 1..n |-> i]
    /\ pg_cap \in 1..MaxPageCap
    /\ pg_start_at = 0
    /\ pg_rows = <<>>
    /\ pg_seen = {}
    /\ pg_result = None

\* the page Jira answers a request for startAt with: at most pg_cap comments
PageOf(startAt) ==
    SubSeq(pg_server, startAt + 1, Min(startAt + pg_cap, Len(pg_server)))

\* rows.sort(key=lambda x: x["_created_dt"])
RECURSIVE InsertRow(_, _)
InsertRow(x, s) ==
    IF s = <<>> THEN <<x>>
    ELSE IF x < Head(s) THEN <<x>> \o s
    ELSE <<Head(s)>> \o InsertRow(x, Tail(s))

RECURSIVE SortRows(_)
SortRows(rows) ==
    IF rows = <<>> THEN <<>> ELSE InsertRow(Head(rows), SortRows(Tail(rows)))

\* one turn of the while loop, lines 210-242: request a page; an empty page
\* returns [], the last page returns the sorted rows
RequestPage ==
    /\ pg_pc = "request"
    /\ LET comments == PageOf(pg_start_at)
           total == Len(pg_server)
           rows == pg_rows \o comments
           start_at == pg_start_at + Len(comments)
       IN  IF comments = <<>>
           THEN /\ pg_result' = <<>>
                /\ pg_pc' = "returned"
                /\ UNCHANGED <<pg_rows, pg_start_at, pg_seen>>
           ELSE /\ pg_rows' = rows
                /\ pg_seen' = pg_seen \cup Range(comments)
                /\ pg_start_at' = start_at
                /\ IF start_at >= total
                   THEN pg_result' = SortRows(rows) /\ pg_pc' = "returned"
                   ELSE UNCHANGED <<pg_result, pg_pc>>
    /\ UNCHANGED <<pg_server, pg_cap, besidePages>>

\* between two requests a user deletes a comment of the issue
DeleteComment ==
    /\ pg_pc = "request"
    /\ \E i \in DOMAIN pg_server :
          pg_server' = SubSeq(pg_server, 1, i - 1) \o SubSeq(pg_server, i + 1, Len(pg_server))
    /\ UNCHANGED <<pg_pc, pg_cap, pg_start_at, pg_rows, pg_seen, pg_result, besidePages>>

\* between two requests a user writes a comment on the issue
WriteComment ==
    /\ pg_pc = "request"
    /\ \E c \in PageCommentIds :
          /\ \A x \in Range(pg_server) \cup pg_seen : x < c
          /\ pg_server' = Append(pg_server, c)
    /\ UNCHANGED <<pg_pc, pg_cap, pg_start_at, pg_rows, pg_seen, pg_result, besidePages>>

NextPages == RequestPage \/ DeleteComment \/ WriteComment

SpecPages == InitPages /\ [][NextPages]_vars

(***************************************************************************)
(* storage/repository.py 8-72, 93-166: the store on its own.  Callers send *)
(* the three upsert scripts to the server, which runs a script one         *)
(* redis.call at a time; readers send HGETALL.                             *)
(***************************************************************************)
Clients == {1, 2}
Keys == {"issue:1", "issue_link:1", "comment_link:11"}
StoreDigests == {hash_text(<<"a">>), hash_text(<<"b">>)}

StoreOp(script, key, j, p, p_issue, desc, att) ==
    [script |-> script, key |-> key, j |-> j, p |-> p, p_issue |-> p_issue,
     desc |-> desc, att |-> att]

\* lines 93-105: upsert_issue_hash passes h_description and h_attachment or ""
IssueOps ==
    { StoreOp("UPSERT_J_ISSUE_LUA", "issue:1", 1, 0, 0, d,
              IF Truthy(a) THEN a ELSE <<>>) :
        d \in StoreDigests, a \in {None, hash_attachment_id(<<7>>)} }
\* lines 108-119
LinkOps ==
    { StoreOp("UPSERT_LINK_LUA", "issue_link:1", 1, p, 0, <<>>, <<>>) :
        p \in {TaskId(1), TaskId(2)} }
\* lines 149-166
CommentOps ==
    { StoreOp("UPSERT_COMMENT_LUA", "comment_link:11", 11, p, TaskId(1), d, <<>>) :
        p \in {CommentPId(1), CommentPId(2)}, d \in StoreDigests }
StoreOps == IssueOps \cup LinkOps \cup CommentOps

\* the Lua locals of a running script
NoLoc == [t |-> 0, old_desc |-> None, old_att |-> <<>>, changed |-> <<>>, is_new |-> 0]
IdleClient ==
    [state |-> "idle", op |-> StoreOp("none", "none", 0, 0, 0, <<>>, <<>>),
     pcl |-> "none", loc |-> NoLoc, ret |-> "pending", pre |-> NoKey, post |-> NoKey,
     rivals |-> {}]

InitStore ==
    /\ JobAtRest
    /\ DlIdle
    /\ FnIdle
    /\ TextIdle
    /\ SeqIdle
    /\ PagesIdle
    /\ redis = [k \in Keys |-> NoKey]
    /\ clients = [c \in Clients |-> IdleClient]
    /\ now = 1
    /\ observed = <<>>

\* a script of another caller has begun and has not ended
MidScript(c) == clients[c].state = "running"

\* a variant of ServedAlone in which the server takes commands as they come
ServedAnyTime(c) == TRUE

\* the server runs a script to its end before it takes another command
ServedAlone(c) == \A d \in Clients \ {c} : ~MidScript(d)

\* Python's str(bool(x))
PyBool(b) == IF b THEN "True" ELSE "False"

\* the caller sends a script: prepare_scripts and the call of the script object
Send ==
    \E c \in Clients, op \in StoreOps :
        /\ clients[c].state = "idle"
        /\ clients' = [clients EXCEPT ![c] =
              [IdleClient EXCEPT !.state = "sent", !.op = op, !.pcl = "EXISTS",
                                 !.rivals = { d \in Clients :
                                                clients[d].state \in {"sent", "running"} }]]
        /\ UNCHANGED <<redis, now, observed, besideStore>>

\* the script goes on to its next redis.call
Goto(cl, label) == [cl EXCEPT !.pcl = label]
\* the script returns and the Python function returns ret
Return(cl, ret, rec) ==
    [cl EXCEPT !.state = "returned", !.pcl = "none", !.ret = ret, !.post = rec]

\* UPSERT_J_ISSUE_LUA, lines 19-29, after the two HGETs: the next redis.call
IssueDescDiffers(cl) == cl.loc.old_desc = None \/ cl.loc.old_desc # cl.op.desc
IssueAttDiffers(cl) == cl.loc.old_att # cl.op.att

\* UPSERT_J_ISSUE_LUA, lines 8-31: one redis.call of the script of caller cl on the
\* hash rec, and what upsert_issue_hash returns at its end (line 105)
IssueCall(cl, rec) ==
    CASE cl.pcl = "EXISTS" ->
            [rec |-> rec,
             cl |-> Goto(cl, IF EXISTS(rec) THEN "HGET h_description" ELSE "TIME 1")]
      [] cl.pcl = "TIME 1" ->
            [rec |-> rec, cl |-> Goto([cl EXCEPT !.loc.t = now], "HSET created_at")]
      [] cl.pcl = "HSET created_at" ->
            [rec |-> HSET(rec, "created_at", cl.loc.t),
             cl |-> Goto(cl, "HGET h_description")]
      [] cl.pcl = "HGET h_description" ->
            [rec |-> rec,
             cl |-> Goto([cl EXCEPT !.loc.old_desc =
                             IF HAS(rec, "h_description") THEN rec["h_description"]
                             ELSE None],
                         "HGET h_attachment")]
      [] cl.pcl = "HGET h_attachment" ->
            LET got == [cl EXCEPT !.loc.old_att = HGET_or_empty(rec, "h_attachment")]
            IN  [rec |-> rec,
                 cl |-> IF IssueDescDiffers(got) THEN Goto(got, "HSET h_description")
                        ELSE IF IssueAttDiffers(got) THEN Goto(got, "HSET h_attachment")
                        ELSE Return(got, PyBool(FALSE), rec)]
      [] cl.pcl = "HSET h_description" ->
            [rec |-> HSET(rec, "h_description", cl.op.desc),
             cl |-> Goto([cl EXCEPT !.loc.changed = Append(@, "desc")],
                         IF IssueAttDiffers(cl) THEN "HSET h_attachment" ELSE "TIME 2")]
      [] cl.pcl = "HSET h_attachment" ->
            [rec |-> HSET(rec, "h_attachment", cl.op.att),
             cl |-> Goto([cl EXCEPT !.loc.changed = Append(@, "attach")], "TIME 2")]
      [] cl.pcl = "TIME 2" ->
            [rec |-> rec, cl |-> Goto([cl EXCEPT !.loc.t = now], "HSET updated_at")]
      [] cl.pcl = "HSET updated_at" ->
            LET written == HSET(rec, "updated_at", cl.loc.t)
            IN  [rec |-> written,
                 cl |-> Return(cl, PyBool(cl.loc.changed # <<>>), written)]

\* UPSERT_LINK_LUA, lines 33-48; upsert_issue_link returns nothing (line 119)
LinkCall(cl, rec) ==
    CASE cl.pcl = "EXISTS" ->
            [rec |-> rec,
             cl |-> Goto(cl, IF EXISTS(rec) THEN "HSET j_issue p_issue" ELSE "TIME 1")]
      [] cl.pcl = "TIME 1" ->
            [rec |-> rec, cl |-> Goto([cl EXCEPT !.loc.t = now], "HSET created_at")]
      [] cl.pcl = "HSET created_at" ->
            [rec |-> HSET(rec, "created_at", cl.loc.t),
             cl |-> Goto([cl EXCEPT !.loc.is_new = 1], "HSET j_issue p_issue")]
      [] cl.pcl = "HSET j_issue p_issue" ->
            LET written == HSET(HSET(rec, "j_issue", cl.op.j), "p_issue", cl.op.p)
            IN  [rec |-> written, cl |-> Return(cl, "None", written)]

\* UPSERT_COMMENT_LUA, lines 50-72; upsert_comment returns bool(is_new) (line 166)
CommentCall(cl, rec) ==
    CASE cl.pcl = "EXISTS" ->
            [rec |-> rec,
             cl |-> Goto(cl, IF EXISTS(rec) THEN "HGET h_description" ELSE "TIME 1")]
      [] cl.pcl = "TIME 1" ->
            [rec |-> rec, cl |-> Goto([cl EXCEPT !.loc.t = now], "HSET created_at")]
      [] cl.pcl = "HSET created_at" ->
            [rec |-> HSET(rec, "created_at", cl.loc.t),
             cl |-> Goto([cl EXCEPT !.loc.is_new = 1], "HGET h_description")]
      [] cl.pcl = "HGET h_description" ->
            LET got == [cl EXCEPT !.loc.old_desc = HGET_or_empty(rec, "h_description")]
            IN  [rec |-> rec,
                 cl |-> Goto(got, IF got.loc.old_desc # cl.op.desc
                                  THEN "HSET h_description" ELSE "HSET ids")]
      [] cl.pcl = "HSET h_description" ->
            [rec |-> HSET(rec, "h_description", cl.op.desc), cl |-> Goto(cl, "HSET ids")]
      [] cl.pcl = "HSET ids" ->
            LET written == HSET(HSET(HSET(rec, "comment_j_id", cl.op.j),
                                     "comment_p_id", cl.op.p),
                                "p_issue_id", cl.op.p_issue)
            IN  [rec |-> written, cl |-> Return(cl, PyBool(cl.loc.is_new = 1), written)]

\* caller c as its script runs: the server has taken the script up
Running(c) ==
    IF clients[c].state = "sent"
    THEN [clients[c] EXCEPT !.state = "running", !.pre = redis[clients[c].op.key]]
    ELSE clients[c]

\* the server runs the next redis.call of the script of caller c; out is what the
\* call makes of the hash and of the caller
Serve(c, script, out) ==
    /\ clients[c].state \in {"sent", "running"}
    /\ clients[c].op.script = script
    /\ ServedAlone(c)
    /\ redis' = [redis EXCEPT ![clients[c].op.key] = out.rec]
    /\ clients' = [clients EXCEPT ![c] = out.cl]
    /\ UNCHANGED <<now, observed, besideStore>>

UpsertIssueStep ==
    \E c \in Clients :
        Serve(c, "UPSERT_J_ISSUE_LUA", IssueCall(Running(c), redis[clients[c].op.key]))
UpsertLinkStep ==
    \E c \in Clients :
        Serve(c, "UPSERT_LINK_LUA", LinkCall(Running(c), redis[clients[c].op.key]))
UpsertCommentStep ==
    \E c \in Clients :
        Serve(c, "UPSERT_COMMENT_LUA", CommentCall(Running(c), redis[clients[c].op.key]))

\* get_issue, get_issue_link, get_comment: one HGETALL
Hgetall ==
    \E k \in Keys :
        /\ ServedAlone(0)
        /\ observed' = [key |-> k, rec |-> redis[k]]
        /\ UNCHANGED <<redis, clients, now, besideStore>>

\* a second of Redis TIME passes between two commands
Tick ==
    /\ now < MaxNow
    /\ \A c \in Clients : ~MidScript(c)
    /\ now' = now + 1
    /\ UNCHANGED <<redis, clients, observed, besideStore>>

NextStore ==
    \/ Send \/ UpsertIssueStep \/ UpsertLinkStep \/ UpsertCommentStep
    \/ Hgetall \/ Tick

SpecStore == InitStore /\ [][NextStore]_vars

(***************************************************************************)
(* Properties of job() and main(), checked under Spec.                     *)
(***************************************************************************)
DestinationCalls ==
    {"add_task", "update_description_task", "upload_file", "add_comment", "update_comment"}
StoreUpserts == {"upsert_issue_hash", "upsert_issue_link", "upsert_comment"}
IssueStepCalls ==
    {"add_task", "update_description_task", "upload_file", "get_issue_attachments",
     "upsert_issue_hash", "upsert_issue_link"}

\* the calls of this pass with one of the given operations
CallsOf(ops) == { i \in DOMAIN calls : calls[i].op \in ops }
CallsFor(ops, id) == { i \in CallsOf(ops) : calls[i].id = id }

InPass == start # NoStart
Fetched == jira_issues_ids

\* C1: a pass that follows a pass which returned without any failed call, on
\* unchanged source data, makes no destination call and no store upsert.
C1_RepeatedPassesConverge ==
    quiet => CallsOf(DestinationCalls \cup StoreUpserts) = {}

\* the third pass is quiet and has run to its end over issues and comments, after a
\* first pass in which a call failed and a clean second pass that repaired the store
C1_Witness ==
    /\ quiet /\ pc = "done" /\ passes = MaxPasses /\ failures = MaxFailures
    /\ jira_issues_list_data # <<>> /\ comments_data # <<>>
    /\ p_tasks # <<>> /\ p_comments # <<>>

\* the stored fingerprints of record rec are the ones computed now, h
SameFingerprints(rec, h) ==
    /\ HAS(rec, "h_description")
    /\ rec["h_description"] = h.h_description
    /\ HGET_or_empty(rec, "h_attachment")
          = (IF h.h_attachment = None THEN <<>> ELSE h.h_attachment)

\* fetched issue j had, when the pass started, a record with the current fingerprints
KnownUnchanged(j) ==
    /\ InPass
    /\ j \in Fetched
    /\ EXISTS(start.issue[j])
    /\ SameFingerprints(start.issue[j], IssueHash(ById(jira_issues_list_data, j)))

\* C2: for a fetched issue whose record holds the current description and
\* attachment fingerprints, the pass makes no destination call and no download for
\* the issue and writes neither its issue record nor its link record.
C2_UnchangedIssueSkipped ==
    \A j \in IssueIds :
        KnownUnchanged(j) =>
            /\ CallsFor(IssueStepCalls, j) = {}
            /\ issue[j] = start.issue[j]
            /\ issue_link[j] = start.issue_link[j]

\* a pass has ended in which one issue was skipped while another was written
C2_Witness ==
    /\ pc = "done"
    /\ \E j \in IssueIds : KnownUnchanged(j)
    /\ \E k \in IssueIds : CallsFor({"upsert_issue_hash"}, k) # {}

\* the pass has run to its end, by returning or by raising
PassEnded == InPass /\ pc \in {"done", "raised"}

\* fetched issue j had neither an issue record nor a link record when the pass started
Unseen(j) ==
    /\ InPass
    /\ j \in Fetched
    /\ ~EXISTS(start.issue[j])
    /\ ~EXISTS(start.issue_link[j])

\* C3: when a pass in which no call failed has ended, every issue that was fetched
\* without an issue record and without a link record has had exactly one add_task,
\* one upsert_issue_link and one upsert_issue_hash call, and both its records exist,
\* the link record holding the task id that add_task returned.
C3_UnseenIssueCreatedOnce ==
    (PassEnded /\ NoCallFailed) =>
        \A j \in IssueIds :
            Unseen(j) =>
                /\ Cardinality(CallsFor({"add_task"}, j)) = 1
                /\ Cardinality(CallsFor({"upsert_issue_link"}, j)) = 1
                /\ Cardinality(CallsFor({"upsert_issue_hash"}, j)) = 1
                /\ EXISTS(issue[j])
                /\ EXISTS(issue_link[j])
                /\ \A i \in CallsFor({"add_task"}, j) :
                      issue_link[j]["p_issue"] \in calls[i].arg

\* the destination tasks made for issue j
TasksOf(tasks, j) == { i \in DOMAIN tasks : tasks[i] = j }

\* C4: no issue ever has two destination tasks, and once issue_link:{j} holds a
\* p_issue no step changes it or makes another task for j.
C4_OneTaskPerIssue ==
    [][\A j \in IssueIds :
          /\ Cardinality(TasksOf(p_tasks', j)) <= 1
          /\ EXISTS(issue_link[j]) =>
                /\ EXISTS(issue_link'[j])
                /\ issue_link'[j]["p_issue"] = issue_link[j]["p_issue"]
                /\ TasksOf(p_tasks', j) = TasksOf(p_tasks, j)]_vars

\* C5: between passes, issue:{id} exists exactly for the issues a destination task
\* was made for.
C5_RecordIffSynchronized ==
    pc = "idle" =>
        \A j \in IssueIds : EXISTS(issue[j]) <=> TasksOf(p_tasks, j) # {}

\* the calls for id, with one of the operations ops, that succeeded
OkCallsFor(ops, id) == { i \in CallsFor(ops, id) : calls[i].res = "ok" }

\* fetched issue j had an issue record and a link record when the pass started
KnownLinked(j) ==
    /\ InPass
    /\ j \in Fetched
    /\ EXISTS(start.issue[j])
    /\ EXISTS(start.issue_link[j])

\* C6: during a pass, the record of a known, linked issue holds another description
\* fingerprint than at the start only if update_description_task has succeeded for
\* the issue, and another attachment fingerprint only if upload_file has.
C6_FingerprintsAfterUpdate ==
    \A j \in IssueIds :
        KnownLinked(j) =>
            /\ HGET_or_empty(issue[j], "h_description")
                   # HGET_or_empty(start.issue[j], "h_description")
                  => OkCallsFor({"update_description_task"}, j) # {}
            /\ HGET_or_empty(issue[j], "h_attachment")
                   # HGET_or_empty(start.issue[j], "h_attachment")
                  => OkCallsFor({"upload_file"}, j) # {}

\* the issue step has acted on selected issue k
Processed(k) ==
    CallsFor({"add_task", "update_description_task", "get_issue_attachments",
              "upload_file"}, k) # {}

\* C7: a failed add_task, update_description_task or upload_file call is followed
\* by an alert and does not raise out of the pass; when the pass is done, every
\* selected issue has been processed.
C7_MutationFailureContained ==
    \A i \in CallsOf({"add_task", "update_description_task", "upload_file"}) :
        calls[i].res # "ok" =>
            /\ pc # "raised"
            /\ i < Len(calls)
            /\ calls[i + 1] = Alert(calls[i].id)
            /\ pc = "done" => \A k \in Range(upload_issues_to_planfix_ids) : Processed(k)

\* C8: after a failed fetch of the issues or a failed get_sid the process is never
\* terminated.
C8_ProcessKeepsRunning ==
    \A i \in CallsOf({"get_issues_self", "get_sid"}) :
        calls[i].res = "fail" => (pc # "exited" /\ exit_code = None)

\* C9: a failed attachment download is followed by an alert and does not raise out
\* of the pass.
C9_DownloadFailureContained ==
    \A i \in CallsOf({"get_issue_attachments"}) :
        calls[i].res # "ok" =>
            /\ pc # "raised"
            /\ i < Len(calls)
            /\ calls[i + 1].op = "send_alert_to_chat"

(***************************************************************************)
(* Properties of _download_with_retries, checked under SpecDownload.       *)
(***************************************************************************)
\* the last attempt met a connection, timeout or network error, or a 429/5xx response
TransientFailure ==
    \/ dl_event \in {"ConnectTimeout", "ReadTimeout", "RemoteProtocolError", "NetworkError"}
    \/ dl_event = "HTTPStatusError" /\ dl_status \in {429, 500, 503}

DownloadOver == dl_pc \in {"returned", "raised"}

DownloadBounded ==
    /\ attempt <= max_retries
    /\ dl_pc = "returned" => dl_event = "saved"
    /\ dl_pc = "sleep" => (TransientFailure /\ attempt < max_retries)
    /\ (dl_pc = "loop" /\ attempt > 0) => (TransientFailure /\ attempt < max_retries)
    /\ dl_pc = "raised" => (~TransientFailure \/ attempt = max_retries)

\* C10: _download_with_retries makes at most max_retries attempts and ends: an
\* attempt that succeeds returns, the call goes round again only after a transient
\* failure of one of the first three attempts, and it raises at once after any
\* other failure and after a failure of the fourth attempt.
C10_DownloadTerminates ==
    /\ []DownloadBounded
    /\ [][(dl_pc = "except" /\ (~TransientFailure \/ attempt = max_retries))
            => dl_pc' = "raised"]_vars
    /\ [][dl_event' = "saved" => dl_pc' = "returned"]_vars
    /\ <>DownloadOver

\* the fourth attempt failed with a retryable error and the call raised
C10_Witness == dl_pc = "raised" /\ attempt = max_retries /\ TransientFailure

(***************************************************************************)
(* Properties of comments(), checked under Spec.                           *)
(***************************************************************************)
\* the time comment c was created at the source
CreatedAt(c) == parse_jira_dt(CommentCreated(c))

\* C11: the add_comment calls of a pass for the comments of one issue are made in
\* ascending order of the comments' creation times, whatever the order in which
\* Jira returned the comments.
C11_CommentsOldestFirst ==
    \A i, k \in CallsOf({"add_comment"}) :
        (i < k /\ CommentIssue(calls[i].id) = CommentIssue(calls[k].id))
            => CreatedAt(calls[i].id) <= CreatedAt(calls[k].id)

\* Jira returned the newer comment first, and both comments have been added
C11_Witness ==
    /\ pc = "done"
    /\ \E i, k \in DOMAIN comments_response :
          /\ i < k
          /\ CommentIssue(comments_response[i]) = CommentIssue(comments_response[k])
          /\ CreatedAt(comments_response[i]) > CreatedAt(comments_response[k])
          /\ OkCallsFor({"add_comment"}, comments_response[i]) # {}
          /\ OkCallsFor({"add_comment"}, comments_response[k]) # {}

CommentStepCalls == {"get_issue_comments", "add_comment", "update_comment", "upsert_comment"}

\* C12: in a pass every issue-level call (issue-record upsert, add_task, link upsert,
\* description update, attachment download and upload) is made before the first
\* comment-level call (comment fetch, add_comment, update_comment, upsert_comment),
\* and when the pass is done every comment of an issue whose link record was
\* written in this pass has had its add_comment call, on the task of that link.
C12_IssuesBeforeComments ==
    /\ \A i \in CallsOf(IssueStepCalls), k \in CallsOf(CommentStepCalls) : i < k
    /\ pc = "done" =>
          \A n \in DOMAIN comments_data :
              OkCallsFor({"upsert_issue_link"}, comments_data[n].issue_id) # {} =>
                  /\ CallsFor({"add_comment"}, comments_data[n].id) # {}
                  /\ \A i \in OkCallsFor({"add_comment"}, comments_data[n].id) :
                        \A k \in OkCallsFor({"upsert_issue_link"}, comments_data[n].issue_id) :
                            calls[i].arg = calls[k].arg

\* a pass has made the task and the link of an issue and then added its comment
C12_Witness ==
    /\ pc = "done"
    /\ \E n \in DOMAIN comments_data :
          /\ OkCallsFor({"add_task"}, comments_data[n].issue_id) # {}
          /\ OkCallsFor({"upsert_issue_hash"}, comments_data[n].issue_id) # {}
          /\ OkCallsFor({"upsert_issue_link"}, comments_data[n].issue_id) # {}
          /\ OkCallsFor({"upsert_comment"}, comments_data[n].id) # {}

\* the comment step has dealt with the n-th fetched comment
Handled(n) == n \in DOMAIN comments_data /\ n < idx

\* the fingerprint of the canonicalized author + date + body composite of a row
CompositeFingerprint(row) == hash_text(canon_text(comment_description_format(row)))

\* C13: for a handled comment that had no comment link record when the pass began:
\* if its issue has no link record, an alert was sent, no add_comment and no
\* upsert_comment call was made for it and it still has no record; if its issue has
\* a link record, add_comment was called once, on the linked task, upsert_comment
\* was called only straight after a successful add_comment, and the record, if
\* written, holds the linked task and the fingerprint of the composite.
C13_UnseenComment ==
    \A n \in DOMAIN comments_data :
        LET row == comments_data[n]
            c == row.id
            link == issue_link[row.issue_id]
        IN  (Handled(n) /\ ~EXISTS(start.comment_link[c])) =>
                IF ~EXISTS(link)
                THEN /\ \E i \in DOMAIN calls : calls[i] = Alert(row.issue_id)
                     /\ CallsFor({"add_comment", "upsert_comment"}, c) = {}
                     /\ ~EXISTS(comment_link[c])
                ELSE /\ Cardinality(CallsFor({"add_comment"}, c)) = 1
                     /\ \A i \in OkCallsFor({"add_comment"}, c) :
                           calls[i].arg = {link["p_issue"]}
                     /\ \A k \in CallsFor({"upsert_comment"}, c) :
                           k - 1 \in OkCallsFor({"add_comment"}, c)
                     /\ EXISTS(comment_link[c]) <=> OkCallsFor({"upsert_comment"}, c) # {}
                     /\ EXISTS(comment_link[c]) =>
                           /\ comment_link[c]["h_description"] = CompositeFingerprint(row)
                           /\ comment_link[c]["p_issue_id"] = link["p_issue"]
                           /\ comment_link[c]["comment_j_id"] = c

\* a pass is done in which two comments of an issue without link record were skipped
C13_Witness ==
    /\ pc = "done"
    /\ Len(comments_data) = 2
    /\ \A n \in DOMAIN comments_data :
          /\ ~EXISTS(issue_link[comments_data[n].issue_id])
          /\ ~EXISTS(comment_link[comments_data[n].id])
    /\ Cardinality({ i \in DOMAIN calls : calls[i] = Alert(1) }) >= 2

\* the comment had a comment link record when the pass began
KnownComment(c) == InPass /\ EXISTS(start.comment_link[c])

\* the record of comment c differs from the one at the start of the pass in
\* h_description and updated_at at most
OnlyFingerprintRewritten(c) ==
    \A f \in DOMAIN start.comment_link[c] :
        f \notin {"h_description", "updated_at"} =>
            comment_link[c][f] = start.comment_link[c][f]

\* C14: for a handled comment that had a comment link record when the pass began:
\* if the fingerprint of its composite is the stored h_description, no call was made
\* for it and its record is the one at the start of the pass; if it differs,
\* update_comment was called once, on the stored destination comment id, and
\* either it succeeded and the record now holds the new fingerprint, or it raised
\* RuntimeError and the record is the one at the start of the pass.  In no state is
\* the record of a known comment rewritten without a successful update_comment.
C14_KnownComment ==
    /\ \A n \in DOMAIN comments_data :
          LET row == comments_data[n]
              c == row.id
              stored == start.comment_link[c]
          IN  (Handled(n) /\ KnownComment(c)) =>
                  IF stored["h_description"] = CompositeFingerprint(row)
                  THEN /\ CallsFor(CommentStepCalls, c) = {}
                       /\ comment_link[c] = stored
                  ELSE /\ Cardinality(CallsFor({"update_comment"}, c)) = 1
                       /\ CallsFor({"add_comment"}, c) = {}
                       /\ \A i \in OkCallsFor({"update_comment"}, c) :
                             /\ calls[i].arg = {stored["comment_p_id"]}
                             /\ i + 1 \in OkCallsFor({"upsert_comment"}, c)
                             /\ comment_link[c]["h_description"] = CompositeFingerprint(row)
                             /\ OnlyFingerprintRewritten(c)
                       /\ OkCallsFor({"update_comment"}, c) = {} =>
                             /\ CallsFor({"upsert_comment"}, c) = {}
                             /\ comment_link[c] = stored
    /\ \A c \in CommentIds :
          (KnownComment(c) /\ comment_link[c] # start.comment_link[c]) =>
              \E i \in OkCallsFor({"update_comment"}, c) :
                  i + 1 \in OkCallsFor({"upsert_comment"}, c)

\* a pass is done that has skipped one known comment and updated the other
C14_Witness ==
    /\ pc = "done"
    /\ \E n, m \in DOMAIN comments_data :
          LET c == comments_data[n].id
              d == comments_data[m].id
          IN  /\ KnownComment(c) /\ KnownComment(d)
              /\ start.comment_link[c]["h_description"] = CompositeFingerprint(comments_data[n])
              /\ CallsFor(CommentStepCalls, c) = {}
              /\ start.comment_link[d]["h_description"] # CompositeFingerprint(comments_data[m])
              /\ OkCallsFor({"update_comment"}, d) # {}
              /\ comment_link[d]["h_description"] = CompositeFingerprint(comments_data[m])

\* the destination comments made for source comment c
CommentsOf(made, c) == { i \in DOMAIN made : made[i] = c }

\* C15: no source comment ever has two destination comments, and once
\* comment_link:{c} exists no step removes it or changes its comment_p_id,
\* p_issue_id or created_at.
C15_OneCommentPerComment ==
    [][\A c \in CommentIds :
          /\ Cardinality(CommentsOf(p_comments', c)) <= 1
          /\ EXISTS(comment_link[c]) =>
                /\ EXISTS(comment_link'[c])
                /\ \A f \in {"comment_p_id", "p_issue_id", "created_at"} :
                      comment_link'[c][f] = comment_link[c][f]]_vars

\* a digest argument is absent: None or the empty string
Absent(v) == v = None \/ v = <<>>

\* C18: hashes_equal returns true for two absent digests and false for an absent
\* one against a present one; the attachment comparison of in_redis_issues
\* returns true when the stored and the current attachment fingerprint are both
\* absent, false when exactly one is absent, and what hashes_equal says of the
\* two when both are present.
C18_AbsenceInComparisons ==
    /\ applied = "hashes_equal" =>
          /\ (Absent(arg_h1) /\ Absent(arg_h2)) => returned
          /\ (Absent(arg_h1) # Absent(arg_h2)) => ~returned
    /\ applied = "equal_attachment" =>
          /\ (Absent(arg_h1) /\ Absent(arg_h2)) => returned
          /\ (Absent(arg_h1) # Absent(arg_h2)) => ~returned
          /\ (~Absent(arg_h1) /\ ~Absent(arg_h2)) => (returned <=> arg_h1 = arg_h2)

\* the attachment comparison was applied to a stored "" and a current None
C18_Witness ==
    /\ applied = "equal_attachment"
    /\ arg_h1 = <<>>
    /\ arg_h2 = None
    /\ returned

\* the callers whose upsert has returned
Returned == { c \in Clients : clients[c].state = "returned" }
ReturnedOf(script) == { c \in Returned : clients[c].op.script = script }

\* C16: an upsert_issue_hash that has returned: on a fresh key it returned True and
\* left a record with created_at; on an existing key with the same fingerprints it
\* returned False and left the record as it was; on an existing key with another
\* fingerprint it returned False, wrote the fields that differ and updated_at.
C16_ReportsNew ==
    \A c \in ReturnedOf("UPSERT_J_ISSUE_LUA") :
        LET cl == clients[c]
            same == /\ HAS(cl.pre, "h_description")
                    /\ cl.pre["h_description"] = cl.op.desc
                    /\ HGET_or_empty(cl.pre, "h_attachment") = cl.op.att
        IN  IF ~EXISTS(cl.pre)
            THEN cl.ret = "True" /\ HAS(cl.post, "created_at")
            ELSE IF same
            THEN cl.ret = "False" /\ cl.post = cl.pre
            ELSE /\ cl.ret = "False"
                 /\ cl.post["h_description"] = cl.op.desc
                 /\ HGET_or_empty(cl.post, "h_attachment") = cl.op.att
                 /\ cl.post["created_at"] = cl.pre["created_at"]
                 /\ cl.post["updated_at"] = cl.loc.t

\* the sequences without repetition of callers from S
Orders(S) ==
    { s \in UNION { [1..n -> S] : n \in 0..Cardinality(S) } :
        \A i, k \in DOMAIN s : i # k => s[i] # s[k] }

\* what the script of caller cl makes of the hash rec when nothing comes between
\* its calls, and what the Python function then returns
WholeScript(cl, rec) ==
    CASE cl.op.script = "UPSERT_J_ISSUE_LUA" ->
            UPSERT_J_ISSUE_LUA(rec, cl.op.desc, cl.op.att, cl.loc.t)
      [] cl.op.script = "UPSERT_LINK_LUA" ->
            UPSERT_LINK_LUA(rec, cl.op.j, cl.op.p, cl.loc.t)
      [] cl.op.script = "UPSERT_COMMENT_LUA" ->
            UPSERT_COMMENT_LUA(rec, cl.op.j, cl.op.p, cl.op.p_issue, cl.op.desc, cl.loc.t)
WholeReturn(cl, rec) ==
    CASE cl.op.script = "UPSERT_J_ISSUE_LUA" ->
            PyBool(UpsertIssueChanged(rec, cl.op.desc, cl.op.att) # <<>>)
      [] cl.op.script = "UPSERT_LINK_LUA" -> "None"
      [] cl.op.script = "UPSERT_COMMENT_LUA" -> PyBool(upsert_comment_result(rec))

\* the hash under key after the callers of order have run one after another
RECURSIVE OneAfterAnother(_, _)
OneAfterAnother(order, key) ==
    IF order = <<>> THEN NoKey
    ELSE LET before == OneAfterAnother(SubSeq(order, 1, Len(order) - 1), key)
             cl == clients[order[Len(order)]]
         IN  IF cl.op.key = key THEN WholeScript(cl, before) ELSE before

\* no script is waiting or running
Quiescent == \A c \in Clients : clients[c].state \in {"idle", "returned"}

\* C17: when no upsert is in flight, the store and the returned values are those of
\* the returned upserts run one after another in some order; what a reader got is
\* the record after some upserts run one after another, never a part of one; and
\* of the callers of upsert_comment on the fresh key exactly one was told new.
C17_UpsertsAtomic ==
    /\ Quiescent =>
          \E order \in Orders(Returned) :
              /\ Len(order) = Cardinality(Returned)
              /\ \A k \in Keys : redis[k] = OneAfterAnother(order, k)
              /\ \A i \in DOMAIN order :
                    LET cl == clients[order[i]]
                    IN  cl.ret = WholeReturn(cl, OneAfterAnother(SubSeq(order, 1, i - 1),
                                                                  cl.op.key))
    /\ observed # <<>> =>
          \E order \in Orders(Returned) :
              observed.rec = OneAfterAnother(order, observed.key)
    /\ (Quiescent /\ ReturnedOf("UPSERT_COMMENT_LUA") # {}) =>
          Cardinality({ c \in ReturnedOf("UPSERT_COMMENT_LUA") :
                          clients[c].ret = "True" }) = 1

\* two callers had upsert_comment under way together with different arguments,
\* both have returned, and a reader got the record between the two scripts
C17_Witness ==
    /\ ReturnedOf("UPSERT_COMMENT_LUA") = Clients
    /\ \E c \in Clients : clients[c].rivals # {}
    /\ clients[1].op # clients[2].op
    /\ observed # <<>>
    /\ \E c \in Clients :
          /\ observed = [key |-> "comment_link:11", rec |-> clients[c].post]
          /\ clients[c].post # redis["comment_link:11"]

\* no collaborator has failed in this pass: every call returned or, as upload_file
\* does when its directory is missing, raised out of the program's own doing
NoCollaboratorFailed ==
    \A i \in DOMAIN calls : calls[i].res \in {"ok", "FileNotFoundError"}

\* the fingerprints of fetched issue j against its record at the start of the pass
SameDescription(j) ==
    /\ HAS(start.issue[j], "h_description")
    /\ start.issue[j]["h_description"] = IssueHash(ById(jira_issues_list_data, j)).h_description
SameAttachments(j) ==
    LET h == IssueHash(ById(jira_issues_list_data, j)).h_attachment
    IN  HGET_or_empty(start.issue[j], "h_attachment") = (IF h = None THEN <<>> ELSE h)

AttachmentCalls == {"get_issue_attachments", "upload_file"}

\* C19: in a pass without a failing collaborator, a known, linked issue whose
\* attachments alone changed gets no update_description_task call, every
\* attachment call for it succeeds, and when the pass is done its attachments were
\* downloaded and uploaded; one whose description alone changed gets no
\* attachment call, and when the pass is done its description was updated.
C19_SeparateUpdatePaths ==
    \A j \in IssueIds :
        (KnownLinked(j) /\ NoCollaboratorFailed) =>
            /\ (SameDescription(j) /\ ~SameAttachments(j)) =>
                  /\ CallsFor({"update_description_task"}, j) = {}
                  /\ CallsFor(AttachmentCalls, j) = OkCallsFor(AttachmentCalls, j)
                  /\ pc = "done" =>
                        /\ OkCallsFor({"get_issue_attachments"}, j) # {}
                        /\ OkCallsFor({"upload_file"}, j) # {}
            /\ (~SameDescription(j) /\ SameAttachments(j)) =>
                  /\ CallsFor(AttachmentCalls, j) = {}
                  /\ pc = "done" => OkCallsFor({"update_description_task"}, j) # {}

\* fetched issue j had, when the pass started, an issue record with other
\* fingerprints than the current ones and no link record
KnownChangedUnlinked(j) ==
    /\ InPass
    /\ j \in Fetched
    /\ EXISTS(start.issue[j])
    /\ ~EXISTS(start.issue_link[j])
    /\ ~SameFingerprints(start.issue[j], IssueHash(ById(jira_issues_list_data, j)))

\* C20: a known issue whose fingerprint changed and which had no link record gets
\* no update_description_task call and at most one add_task call in the pass; its
\* link record is written only with the task id a successful add_task returned;
\* and when the pass is done without a failed call, add_task was called once and
\* the link record holds the returned task id.
C20_KnownUnlinkedTreatedAsUnseen ==
    \A j \in IssueIds :
        KnownChangedUnlinked(j) =>
            /\ CallsFor({"update_description_task"}, j) = {}
            /\ Cardinality(CallsFor({"add_task"}, j)) <= 1
            /\ EXISTS(issue_link[j]) =>
                  \E i \in OkCallsFor({"add_task"}, j) :
                      calls[i].arg = {issue_link[j]["p_issue"]}
            /\ (pc = "done" /\ NoCallFailed) =>
                  /\ Cardinality(OkCallsFor({"add_task"}, j)) = 1
                  /\ EXISTS(issue_link[j])

\* a pass is done that made the task and the link record of a known, changed issue
\* that had no link record
C20_Witness ==
    /\ pc = "done"
    /\ NoCallFailed
    /\ \E j \in IssueIds :
          /\ KnownChangedUnlinked(j)
          /\ OkCallsFor({"add_task"}, j) # {}
          /\ OkCallsFor({"upsert_issue_link"}, j) # {}
          /\ TasksOf(p_tasks, j) # {}

\* C21: a failed fetch of the details of one issue or of the comments of one issue
\* is followed by an alert, does not end the process and does not raise out of
\* the pass.
C21_FetchFailureContained ==
    \A i \in CallsOf({"get_issue_data", "get_issue_comments"}) :
        calls[i].res # "ok" =>
            /\ pc \notin {"raised", "sys_exit", "exited"}
            /\ exit_code = None
            /\ i < Len(calls)
            /\ calls[i + 1].op = "send_alert_to_chat"

\* C22: canon_text applied to what canon_text returned returns it unchanged, so
\* hash_text of a canonical text digests that very text.
C22_CanonIdempotent ==
    s_again # None =>
        /\ s_again = s_canon
        /\ hash_text(s_canon) = h_digest(s_canon)

\* the set of the values of a list, and the payload the digest of the model shows
IdSet(ints) == { ints[i] : i \in 1..Len(ints) }
Payload(digest) == Tail(digest)

\* the payload is the count of the distinct ids of the list followed by those ids,
\* each once
PayloadOfSet(digest, ints) ==
    LET p == Payload(digest)
        n == Cardinality(IdSet(ints))
    IN  /\ Len(p) = n + 1
        /\ p[1] = n
        /\ { p[i] : i \in 2..(n + 1) } = IdSet(ints)

\* the two digests are equal exactly when the two lists hold the same ids
SameSetSameDigest == (IdSet(ints_a) = IdSet(ints_b)) <=> (digest_a = digest_b)

Letters(s) == Casefold(SelectSeq(StripTags(s), LAMBDA c : ~IsWhite(c)))

\* a and b differ only by whitespace, letter case or markup tags
DiffersByWhitespaceCaseTags(a, b) == Letters(a) = Letters(b)

\* a and b differ only by letter case, markup tags, the length of runs of spaces
\* and tabs, or whitespace at the two ends
DiffersByFormatting(a, b) ==
    Casefold(Strip(CollapseSpaces(StripTags(a))))
        = Casefold(Strip(CollapseSpaces(StripTags(b))))

\* the description fingerprint hash_jira_issue_data computes for each description
DescriptionFingerprint ==
    [d \in Descriptions |->
        IssueHash([id |-> 1, description |-> d, attachment |-> <<>>]).h_description]

\* the pairs of descriptions in each of the two relations
WhitespaceCaseTagsPairs ==
    { pair \in Descriptions \X Descriptions : DiffersByWhitespaceCaseTags(pair[1], pair[2]) }
FormattingPairs ==
    { pair \in Descriptions \X Descriptions : DiffersByFormatting(pair[1], pair[2]) }

\* fetched issue j had a record when the pass started whose description fingerprint
\* is that of description prev
SynchronizedAs(j, prev) ==
    /\ InPass
    /\ j \in Fetched
    /\ HAS(start.issue[j], "h_description")
    /\ start.issue[j]["h_description"] = DescriptionFingerprint[prev]

\* the pass takes the description of issue j for the stored one: the fingerprint
\* computed now is the stored one, the list of changed issues does not flag the
\* description, and no update_description_task call is made for the issue
DescriptionUnchanged(j) ==
    /\ DescriptionFingerprint[ById(jira_issues_list_data, j).description]
          = start.issue[j]["h_description"]
    /\ \A i \in DOMAIN updated_issues_data :
          updated_issues_data[i].id = j => ~updated_issues_data[i].h_description
    /\ CallsFor({"update_description_task"}, j) = {}

GetSidFailed == \E i \in DOMAIN calls : calls[i].op = "get_sid" /\ calls[i].res = "fail"

\* C25: when get_sid fails in the first pass the operator is alerted, the pass
\* makes no further call, the process does nothing but exit, and the exit code
\* it ends with is 1, not zero.
C25_StartupFailureExitsNonzero ==
    (passes = 1 /\ GetSidFailed) =>
        /\ pc \in {"sys_exit", "exited"}
        /\ calls = <<Call("get_sid", 0, "fail"), Alert(0)>>
        /\ pc = "exited" => (exit_code = 1 /\ exit_code # 0)
        /\ pc = "sys_exit" => ENABLED SysExit

\* the process has ended after get_sid failed in its first pass
C25_Witness == passes = 1 /\ GetSidFailed /\ pc = "exited"


(***************************************************************************)
(* get_issue_comments, checked under SpecPages.                            *)
(***************************************************************************)
\* C26: what get_issue_comments returns is every comment it received on any
\* page, an empty page included: no comment of an earlier page is dropped.
C26_ReturnsEveryCommentSeen ==
    pg_pc = "returned" => Range(pg_result) = pg_seen


(***************************************************************************)
(* The life of the records, checked under Spec.                            *)
(***************************************************************************)
\* a step leaves an existing record in place, its created_at as it was
Kept(old, new) ==
    EXISTS(old) =>
        /\ EXISTS(new)
        /\ HAS(old, "created_at") => (HAS(new, "created_at")
                                        /\ new["created_at"] = old["created_at"])

\* every record is written with created_at by the call that creates it
Stamped(rec) == EXISTS(rec) => HAS(rec, "created_at")

\* C27: no step of any pass deletes an issue record, a link record or a comment
\* link record, and none changes the created_at of a record that exists; every
\* record carries the created_at of its creation.
C27_RecordsKept ==
    [][/\ \A j \in IssueIds :
            /\ Kept(issue[j], issue'[j]) /\ Stamped(issue'[j])
            /\ Kept(issue_link[j], issue_link'[j]) /\ Stamped(issue_link'[j])
       /\ \A c \in CommentIds :
            Kept(comment_link[c], comment_link'[c]) /\ Stamped(comment_link'[c])]_vars

\* an issue record created in one pass has been rewritten in a later one, beside
\* its link record and a comment link record of the earlier pass
C27_Witness ==
    /\ \E j \in IssueIds :
          /\ HAS(issue[j], "updated_at")
          /\ issue[j]["updated_at"] > issue[j]["created_at"]
          /\ EXISTS(issue_link[j])
    /\ \E c \in CommentIds :
          /\ EXISTS(comment_link[c])
          /\ comment_link[c]["created_at"] < passes


(***************************************************************************)
(* in_redis_issues, checked under Spec.                                    *)
(***************************************************************************)
\* the description fingerprint computed for issue j is not the stored one
DescriptionDiffers(j) ==
    issue[j]["h_description"] # IssueHash(ById(jira_issues_list_data, j)).h_description

\* the attachment fingerprint computed for issue j is not the stored one, an issue
\* without attachments having none on either side
AttachmentDiffers(j) ==
    LET h == IssueHash(ById(jira_issues_list_data, j)).h_attachment
    IN  HGET_or_empty(issue[j], "h_attachment") # (IF h = None THEN <<>> ELSE h)

\* the rows of a list of changed issues that are about issue j
RowsOf(rows, j) == { i \in DOMAIN rows : rows[i].id = j }

\* the step is the whole of in_redis_issues
InRedisIssuesStep == pc = "in_redis_issues" /\ pc' # pc

\* C28: in_redis_issues appends a known issue to upload_issues_to_planfix_ids and
\* a row for it to updated_issues_data exactly when its description fingerprint or
\* its attachment fingerprint differs from the stored one, and the row's flags
\* h_description and h_attachment say which of the two differ.
C28_ProcessOnChange ==
    [][InRedisIssuesStep =>
          /\ \E appended \in SeqsOf({ j \in Range(in_redis_issues_ids) :
                                        DescriptionDiffers(j) \/ AttachmentDiffers(j) }) :
                upload_issues_to_planfix_ids' = upload_issues_to_planfix_ids \o appended
          /\ \A j \in IssueIds \ Range(in_redis_issues_ids) :
                RowsOf(updated_issues_data', j) = {}
          /\ \A j \in Range(in_redis_issues_ids) :
                /\ Cardinality(RowsOf(updated_issues_data', j))
                      = (IF DescriptionDiffers(j) \/ AttachmentDiffers(j) THEN 1 ELSE 0)
                /\ \A i \in RowsOf(updated_issues_data', j) :
                      /\ updated_issues_data'[i].h_description = DescriptionDiffers(j)
                      /\ updated_issues_data'[i].h_attachment = AttachmentDiffers(j)]_vars

\* in_redis_issues has gone over two known issues: it skipped one and appended the
\* other for its description alone
C28_Witness ==
    /\ pc = "upsert_issue_hash"
    /\ idx = 1
    /\ \E i \in DOMAIN updated_issues_data :
          updated_issues_data[i].h_description /\ ~updated_issues_data[i].h_attachment
    /\ \E k \in Range(in_redis_issues_ids) : k \notin Range(upload_issues_to_planfix_ids)


(***************************************************************************)
(* Comments of issues that did not change, checked under Spec.             *)
(***************************************************************************)
\* the rows of comments_data that are comment c
RowsOfComment(c) == { n \in DOMAIN comments_data : comments_data[n].id = c }

\* comment c of Jira was fetched in this pass and, if it had no record when the
\* pass began, add_comment was called for it, or, if its record held another
\* fingerprint, update_comment was called for it
Mirrored(c) ==
    /\ RowsOfComment(c) # {}
    /\ \A n \in RowsOfComment(c) :
          IF ~EXISTS(start.comment_link[c])
          THEN CallsFor({"add_comment"}, c) # {}
          ELSE start.comment_link[c]["h_description"] # CompositeFingerprint(comments_data[n])
                  => CallsFor({"update_comment"}, c) # {}

\* C29: when a pass has run through its comment step, every comment of every
\* fetched issue whose description and attachments are unchanged has been fetched,
\* and add_comment was called for it if it was new, update_comment if it was changed.
C29_CommentsIndependentOfIssue ==
    pc = "done" =>
        \A c \in DOMAIN j_comments :
            KnownUnchanged(CommentIssue(c)) => Mirrored(c)


(***************************************************************************)
(* The files of an attachment update, checked under Spec.                  *)
(***************************************************************************)
\* C30: every upload_file call for a known, linked issue follows a
\* get_issue_attachments call for the issue that wrote to the directory
\* upload_file reads, downloads/<jira id>, and a successful upload sent exactly
\* the attachments the issue has now.
C30_UploadsWhatWasDownloaded ==
    \A j \in IssueIds :
        KnownLinked(j) =>
            \A i \in CallsFor({"upload_file"}, j) :
                /\ i - 1 \in CallsFor({"get_issue_attachments"}, j)
                /\ calls[i - 1].arg = {j}
                /\ calls[i].res = "ok" =>
                      calls[i].arg = Range(ById(jira_issues_list_data, j).attachment)


(***************************************************************************)
(* Comment calls that failed, checked under Spec.                          *)
(***************************************************************************)
\* add_comment or update_comment failed for comment c in this pass
CommentCallFailed(c) ==
    \E i \in CallsFor({"add_comment", "update_comment"}, c) : calls[i].res # "ok"

\* C31: a comment whose add_comment or update_comment failed in this pass gets no
\* upsert_comment call and keeps the record, or the absence of a record, it had
\* when the pass began; and when the next pass, on unchanged source data, handles a
\* comment whose call failed in the pass before, it classifies the comment as
\* before (not found for add_comment, changed for update_comment) and makes the
\* same destination call again.
C31_FailedCommentRetried ==
    /\ \A c \in CommentIds :
          CommentCallFailed(c) =>
              /\ CallsFor({"upsert_comment"}, c) = {}
              /\ comment_link[c] = start.comment_link[c]
    /\ \A n \in DOMAIN comments_data :
          \A op \in {"add_comment", "update_comment"} :
              (Handled(n) /\ <<op, comments_data[n].id>> \in to_retry) =>
                  /\ (op = "add_comment") <=> ~EXISTS(start.comment_link[comments_data[n].id])
                  /\ (op = "update_comment") =>
                        start.comment_link[comments_data[n].id]["h_description"]
                            # CompositeFingerprint(comments_data[n])
                  /\ CallsFor({op}, comments_data[n].id) # {}

\* a pass has ended that made again, with success, the add_comment call that had
\* failed in the pass before
C31_Witness ==
    /\ pc = "done"
    /\ \E c \in CommentIds :
          /\ <<"add_comment", c>> \in to_retry
          /\ OkCallsFor({"add_comment"}, c) # {}
          /\ EXISTS(comment_link[c])


(***************************************************************************)
(* The lookup of line 281, checked under Spec.                             *)
(***************************************************************************)
\* C32: every issue id placed in in_planfix_ids has a change-flag row in
\* updated_issues_data, so that the lookup of line 281 finds one.
C32_LinkedIssuesHaveFlags ==
    \A i \in DOMAIN in_planfix_ids : HasFlags(in_planfix_ids[i][2])


(***************************************************************************)
(* The partition of the fetched ids, checked under Spec.                   *)
(***************************************************************************)
\* a list without repetitions
NoRepeats(ids) == Cardinality(Range(ids)) = Len(ids)

\* job() has made its two lists and in_redis_issues has not run yet
Partitioned == InPass /\ pc = "in_redis_issues"

\* in_redis_issues has run in this pass
Compared ==
    InPass /\ pc \notin {"idle", "get_sid", "in_redis_issues", "sys_exit", "exited"}

\* fetched issue j had a record when the pass started, with another description or
\* attachment fingerprint than the one computed now
KnownChanged(j) ==
    /\ j \in Fetched
    /\ HAS(start.issue[j], "h_description")
    /\ ~SameFingerprints(start.issue[j], IssueHash(ById(jira_issues_list_data, j)))

\* C33: before in_redis_issues every fetched id is in exactly one of the two lists,
\* upload_issues_to_planfix_ids holding the ids without issue record and
\* in_redis_issues_ids the ids with one; after in_redis_issues,
\* upload_issues_to_planfix_ids holds the ids without issue record and the known
\* ids classified as changed, each once.
C33_FetchedIdsPartitioned ==
    /\ Partitioned =>
          /\ Range(upload_issues_to_planfix_ids) = { j \in Fetched : ~EXISTS(issue[j]) }
          /\ Range(in_redis_issues_ids) = { j \in Fetched : EXISTS(issue[j]) }
          /\ NoRepeats(upload_issues_to_planfix_ids)
          /\ NoRepeats(in_redis_issues_ids)
    /\ Compared =>
          /\ Range(upload_issues_to_planfix_ids)
                = { j \in Fetched : ~EXISTS(start.issue[j]) \/ KnownChanged(j) }
          /\ Range(in_redis_issues_ids) = { j \in Fetched : EXISTS(start.issue[j]) }
          /\ NoRepeats(upload_issues_to_planfix_ids)

\* in_redis_issues has appended a known, changed issue to a list that held an issue
\* without record
C33_Witness ==
    /\ pc = "upsert_issue_hash"
    /\ \E j \in Range(upload_issues_to_planfix_ids) : ~EXISTS(start.issue[j])
    /\ \E k \in Range(upload_issues_to_planfix_ids) : KnownChanged(k)


(***************************************************************************)
(* The link record of a new task, checked under Spec.                      *)
(***************************************************************************)
\* C34: for an issue whose task add_task made in this pass, every attachment
\* download or upload follows a successful upsert_issue_link, and when upload_file
\* has failed for the issue the link record is there and the pass goes on towards
\* its comment step.
C34_LinkBeforeAttachments ==
    \A j \in IssueIds :
        OkCallsFor({"add_task"}, j) # {} =>
            /\ \A i \in CallsFor(AttachmentCalls, j) :
                  \E k \in OkCallsFor({"upsert_issue_link"}, j) : k < i
            /\ (\E i \in CallsFor({"upload_file"}, j) : calls[i].res # "ok") =>
                  /\ EXISTS(issue_link[j])
                  /\ pc # "raised"


(***************************************************************************)
(* The loop of main(), checked under Spec.                                 *)
(***************************************************************************)
\* main() is in its finally clause or about to call job() again
Sleeping == pc = "idle"

\* C35: when an Exception has left job(), or job() has returned, the next step of
\* main() is the sleep of the finally clause, with the process alive; a pass
\* starts only out of that sleep, one pass at a time; and out of the sleep another
\* pass can always be started.
C35_MainLoopGoesOn ==
    /\ [][/\ pc \in {"raised", "done"} => (Sleeping' /\ exit_code' = None)
          /\ passes' # passes => (Sleeping /\ passes' = passes + 1)]_vars
    /\ []((Sleeping /\ passes < MaxPasses) => (exit_code = None /\ ENABLED JobFetchOk))

\* a pass is running after a pass that add_task's unhandled upsert_issue_link
\* failure had ended: Planfix holds a task and the store holds no link record
C35_Witness ==
    /\ pc = "get_sid"
    /\ passes >= 2
    /\ p_tasks # <<>>
    /\ \A j \in IssueIds : ~EXISTS(issue_link[j])

=============================================================================
